---- MODULE Spec2Model ----
(***************************************************************************)
(* A model of the DRIM sandbox core: the SandboxManager pool                *)
(* (app/sandbox/core/manager.py), the DockerSandbox lifecycle              *)
(* (app/sandbox/core/sandbox.py) and the DockerSession command protocol    *)
(* (app/sandbox/core/terminal.py).                                         *)
(*                                                                         *)
(* The manager runs on one asyncio event loop.  A coroutine runs without   *)
(* interruption until it reaches an await that really suspends (a sleep,   *)
(* a call dispatched to a worker thread, a lock that is not free), so each *)
(* action below is one such uninterrupted segment of a coroutine.  An      *)
(* asyncio.Lock hands itself to its first waiter on release (FIFO), and an *)
(* acquire on a free lock without waiters does not suspend.                *)
(*                                                                         *)
(* Time is a discrete clock.  It advances only when no coroutine is ready  *)
(* to run; calls into the container engine and the bodies of guarded       *)
(* operations take any amount of time.                                     *)
(***************************************************************************)
EXTENDS Integers, Sequences, FiniteSets, TLC

\* ---------------------------------------------------------------- bounds
\* SandboxManager(max_sandboxes, idle_timeout, cleanup_interval): constructor
\* parameters, chosen small here.  Times are counted in ticks of 0.5 s.
max_sandboxes == 2
idle_timeout == 1
cleanup_interval == 1
\* uuid4 identifiers handed out in one behaviour
MaxIds == 3
\* the clock stops here
MaxTime == 3
\* iterations of the grace loop of _safe_delete_sandbox (range(10) in the source)
GracePolls == 2
\* asyncio.sleep(0.5) of the grace loop, in ticks
PollSleep == 1
\* sandboxes whose teardown or provisioning left something behind
MaxLeaks == 1
\* manager calls begun in one behaviour
MaxCalls == 3
\* DockerSession.execute calls begun in one behaviour
MaxExec == 3

Callers == {"c1", "c2"}
Sweep == "sweep"
NoTask == "none"

Ids == 1..MaxIds
\* the task asyncio.gather makes of _safe_delete_sandbox(i) in cleanup()
DeleterOf(i) == "d" \o ToString(i)
Deleters == {DeleterOf(i) : i \in Ids}
Tasks == Callers \cup {Sweep} \cup Deleters
\* no identifier: the value of arg outside a call on an id
UnknownId == 0
\* an identifier a caller made up: no create_sandbox ever returns it
NeverCreated == MaxIds + 1
\* the lock object of self._global_lock; the per-id locks are 1, 2, ...
G == 0
LockObjs == 1..(MaxIds + 2 + Cardinality(Callers))

VARIABLES
    now,          \* asyncio.get_event_loop().time()
    sandboxes,    \* keys of self._sandboxes
    last_used,    \* self._last_used
    locks,        \* self._locks: id -> lock object
    lockHolder,   \* lock object -> the task that holds it
    lockWaiters,  \* lock object -> FIFO of the tasks waiting for it
    active,       \* self._active_operations
    shutting,     \* self._is_shutting_down
    cancel_req,   \* cancel() was called on the sweep task and not delivered yet
    tracked,      \* the ids tracked when the last cleanup() began (not in the code)
    pc,           \* task -> where its coroutine is suspended
    op,           \* task -> the manager call it is in
    arg,          \* task -> the sandbox id it works on
    lk,           \* task -> op_lock, the lock object read at manager.py:90
    polls,        \* task -> iterations of the grace loop done
    wake,         \* task -> when its asyncio.sleep ends
    rem,          \* sandboxes_to_check still to visit in this sweep
    ctime,        \* current_time of this sweep
    ev,           \* what the last step did, as its caller sees it
    sbx,          \* id -> the DockerSandbox object and what it left behind
    nextId,       \* the next uuid4
    created,      \* ids create_sandbox has returned
    calls,        \* manager calls begun so far
    idle_since,   \* id -> when its last guarded operation ended (not in the code)
    \* one DockerSession and the shell at the other end of its socket
    echo_on,      \* the tty echoes what is typed
    tty_in,       \* lines sent on the socket the shell has not read yet
    running,      \* the line the shell is running
    sock,         \* what the shell wrote and recv has not returned yet
    op_lock,      \* the caller inside the guard of this sandbox
    spc,          \* caller -> where its execute() is suspended
    call,         \* caller -> the number of its execute() call
    output_buffer, \* caller -> what its read loop has received
    result,       \* caller -> what read_output_with_sentinel returned
    nexec,        \* execute() calls begun so far
    caller_of,    \* call number -> the caller that made it
    timed_out,    \* the calls that raised a timeout
    closed,       \* the peer has closed the stream: recv returns b"" at its end
    raised,       \* the failures callers have seen, each with its cause
    sev,          \* what the last run_command gave its caller
    \* one DockerSandbox object that its owner drives directly
    dsb,          \* the object and what it left behind, as sbx[i] above
    cfs,          \* the files and directories of the container
    hfs,          \* the files of the host the owner copies from and to
    origin,       \* container path -> the write_file or copy_to that put it (not in the code)
    destroyed,    \* a cleanup() of the object has completed (not in the code)
    nops,         \* calls made on the object so far
    out,          \* what the last call on the object did and gave
    \* the LocalSandboxClient and the tasks that share it
    c_sandbox,    \* _sandbox: the DockerSandbox held, NoBox for None
    c_active,     \* _is_active
    boxes,        \* every DockerSandbox made so far, as sbx[i] above
    nbox,         \* how many were made
    cu,           \* task -> its frame
    ccalls,       \* public calls made so far
    ccleaned,     \* the public cleanup() was called (not in the code)
    cfaults,      \* the engine or the host failed a step (not in the code)
    cres,         \* what the last public call that ended gave
    \* one DockerSession object, from its construction to its close()
    s_socket,     \* self.socket is set
    s_exec_id,    \* self.exec_id is set
    s_wire,       \* how many times sendall has written to the stream
    s_opened,     \* a create() has returned (not in the code)
    s_closed,     \* a close() has returned after that (not in the code)
    lpc,          \* task -> where its call on the session is suspended
    lcalls,       \* calls made on the session so far
    lev           \* what the last step of a call on the session came to

tables == <<sandboxes, last_used, locks>>
lockVars == <<lockHolder, lockWaiters>>
sweepVars == <<rem, ctime>>
taskVars == <<pc, op, arg>>
flags == <<shutting, cancel_req, tracked>>
mgrVars == <<now, sandboxes, last_used, locks, lockHolder, lockWaiters, active,
             shutting, cancel_req, tracked, pc, op, arg, lk, polls, wake, rem, ctime, ev, sbx,
             nextId, created, calls, idle_since>>
sessVars == <<echo_on, tty_in, running, sock, op_lock, spc, call,
              output_buffer, result, nexec, caller_of, timed_out, closed,
              raised, sev>>
boxVars == <<dsb, cfs, hfs, origin, destroyed, nops, out>>
cliVars ==
    <<c_sandbox, c_active, boxes, nbox, cu, ccalls, ccleaned, cfaults, cres>>
lifeVars ==
    <<s_socket, s_exec_id, s_wire, s_opened, s_closed, lpc, lcalls, lev>>
vars == <<mgrVars, sessVars, boxVars, cliVars, lifeVars>>

\* ------------------------------------------------------------ asyncio.Lock
LockState == [h |-> lockHolder, w |-> lockWaiters]

Free(L, l) == L.h[l] = NoTask /\ L.w[l] = <<>>

\* acquire(): taken at once when free and nobody waits, else the task queues
Acquire(L, l, t) ==
    IF Free(L, l) THEN [L EXCEPT !.h[l] = t]
    ELSE [L EXCEPT !.w[l] = Append(@, t)]

\* a release() that wakes nobody
ReleaseWakesNobody(L, l) == [L EXCEPT !.h[l] = NoTask]

\* release(): the first waiter, if any, is woken and is the next holder
Release(L, l) ==
    IF L.w[l] = <<>> THEN [L EXCEPT !.h[l] = NoTask]
    ELSE [h |-> [L.h EXCEPT ![l] = Head(L.w[l])],
          w |-> [L.w EXCEPT ![l] = Tail(@)]]

SetLocks(L) == lockHolder' = L.h /\ lockWaiters' = L.w

Range(f) == {f[x] : x \in DOMAIN f}

\* asyncio.Lock(): an object nobody refers to yet
NewLock(L, tbl) ==
    CHOOSE l \in LockObjs :
        /\ l \notin Range(tbl) /\ Free(L, l)
        /\ \A m \in LockObjs : (m \notin Range(tbl) /\ Free(L, m)) => l <= m

\* dict.pop(key, None)
Pop(f, k) == [x \in DOMAIN f \ {k} |-> f[x]]
\* dict[key] = value
Put(f, k, v) == [x \in DOMAIN f \cup {k} |-> IF x = k THEN v ELSE f[x]]

\* ---------------------------------------------------------- DockerSandbox
Steps == {"dir", "container", "handle", "start", "terminal"}
TearFails == {"none", "remove", "rmtree"}

\* terminal: self.terminal is set; handle: self.container is set; path:
\* self._host_work_dir_path is set; engine: the container exists in the
\* engine; disk: the scratch directory exists on the host
SbxNone == [terminal |-> FALSE, handle |-> FALSE, path |-> FALSE,
            engine |-> FALSE, disk |-> FALSE]
SbxReady == [terminal |-> TRUE, handle |-> TRUE, path |-> TRUE,
             engine |-> TRUE, disk |-> TRUE]

\* sandbox.py:50-88: the object when step failAt of create() raises
Partial(failAt) ==
    [terminal |-> failAt = "terminal",
     handle |-> failAt \in {"start", "terminal"},
     path |-> failAt # "dir",
     disk |-> failAt # "dir",
     engine |-> failAt \in {"handle", "start", "terminal"}]

\* DockerSandbox.cleanup(): every step is tried, its error kept in a list
SandboxCleanup(s, fail) ==
    [terminal |-> FALSE,
     handle |-> FALSE,
     engine |-> IF s.handle THEN s.engine /\ fail = "remove" ELSE s.engine,
     path |-> s.path /\ ~s.disk,
     disk |-> s.disk /\ (~s.path \/ fail = "rmtree")]

\* DockerSandbox.cleanup() cancelled at its await `at`: the CancelledError
\* passes every `except Exception`; a remove already handed to the worker
\* thread still happens, the directory is never reached, and the object
\* goes with the frame that held it
CleanupAwaits == {"terminal", "stop", "remove"}
SandboxCleanupCancelled(s, at) ==
    [terminal |-> FALSE,
     handle |-> FALSE,
     engine |-> s.engine /\ at # "remove",
     path |-> FALSE,
     disk |-> s.disk]

\* DockerSandbox.create() raising at failAt: cleanup() runs, then SandboxError
SandboxCreateFailed(failAt, fail) == SandboxCleanup(Partial(failAt), fail)

\* a container or a directory no object refers to any more
Leaked(s) == (s.engine /\ ~s.handle) \/ (s.disk /\ ~s.path)
Leaks == Cardinality({i \in Ids : Leaked(sbx[i])})
\* the engine faults of one behaviour are bounded
MayLeave(s) == Leaked(s) => Leaks < MaxLeaks

\* --------------------------------------------------- errors of run_command
\* why a run_command fails: the sanitizer refused the command, the wait for
\* the sentinel ran out of time, the peer closed the stream
Causes == {"rejected", "timeout", "closed"}

\* terminal.py:148-212: what execute() raises.  The ValueError of the
\* sanitizer and a socket error are caught by `except Exception` and raised
\* again as RuntimeError; the timeout of wait_for is raised as TimeoutError.
ExecuteRaises(cause) ==
    IF cause = "timeout" THEN "TimeoutError" ELSE "RuntimeError"

\* sandbox.py:109-121: what DockerSandbox.run_command makes of it
\* (AsyncDockerizedTerminal.run_command raises again what it catches,
\* terminal.py:299-308; asyncio.TimeoutError is TimeoutError from Python 3.11)
RunCommandRaises(exc) ==
    IF exc = "TimeoutError" THEN "SandboxTimeoutError" ELSE "SandboxError"

\* the error kind the caller of run_command sees
Raised(cause) ==
    IF cause = "none" THEN "none" ELSE RunCommandRaises(ExecuteRaises(cause))

\* a run_command that disposes of the Sandbox when it fails
AfterRunCommandDisposes(s, cause) ==
    IF cause = "none" THEN s ELSE SandboxCleanup(s, "none")

\* sandbox.py:109-121: the Sandbox after run_command returned or raised; no
\* path of it touches the terminal, the container or the directory
AfterRunCommand(s, cause) ==
    [terminal |-> s.terminal, handle |-> s.handle, path |-> s.path,
     engine |-> s.engine, disk |-> s.disk]

\* ------------------------------------------ DockerSandbox, used directly
\* calls made on the one object
MaxOps == 4

\* a path: absolute or not, and its parts as pathlib gives them, the root
\* left out
PathOf(abs, parts) == [abs |-> abs, parts |-> parts]

\* config.work_dir
WorkDir == <<"w">>

\* the sandbox paths the owner gives
SandboxPaths ==
    {PathOf(FALSE, <<"f">>), PathOf(FALSE, <<"d", "f">>),
     PathOf(TRUE, <<"w", "f">>), PathOf(TRUE, <<"g">>),
     PathOf(FALSE, <<"..", "f">>), PathOf(TRUE, <<"w", "..", "g">>)}

\* sandbox.py:125: `".." in path.parts`
Traverses(p) == \E j \in 1..Len(p.parts) : p.parts[j] = ".."

\* a resolution that lets every path through
resolve_container_path_unchecked(p) ==
    [e |-> "ok", path |-> IF p.abs THEN p.parts ELSE WorkDir \o p.parts]

\* sandbox.py:123-131: _resolve_container_path
resolve_container_path(p) ==
    IF Traverses(p) THEN [e |-> "ValueError", path |-> <<>>]
    ELSE [e |-> "ok", path |-> IF p.abs THEN p.parts ELSE WorkDir \o p.parts]

Parent(r) == SubSeq(r, 1, Len(r) - 1)
NameOf(r) == r[Len(r)]
Prefixes(r) == {SubSeq(r, 1, k) : k \in 0..Len(r)}

\* text, and str.encode("utf-8") / bytes.decode("utf-8", errors="replace")
Texts == {<<"a">>, <<"e_acute", "nl", "a">>}

EncodeChar(c) ==
    CASE c = "a" -> <<97>>
      [] c = "nl" -> <<10>>
      [] c = "e_acute" -> <<195, 169>>
      [] OTHER -> <<239, 191, 189>>

RECURSIVE Encode(_)
Encode(t) == IF t = <<>> THEN <<>> ELSE EncodeChar(Head(t)) \o Encode(Tail(t))

RECURSIVE Decode(_)
Decode(b) ==
    IF b = <<>> THEN <<>>
    ELSE IF b[1] = 97 THEN <<"a">> \o Decode(Tail(b))
    ELSE IF b[1] = 10 THEN <<"nl">> \o Decode(Tail(b))
    ELSE IF b[1] = 195 /\ Len(b) > 1 /\ b[2] = 169
         THEN <<"e_acute">> \o Decode(Tail(Tail(b)))
    ELSE <<"U+FFFD">> \o Decode(Tail(b))

\* the file system of a new container: the root and the working directory
EmptyFs == [files |-> <<>>, dirs |-> {<<>>, WorkDir}]

Exists(fs, r) == r \in DOMAIN fs.files \/ r \in fs.dirs

\* exec_run("mkdir -p '<d>'") (sandbox.py:163-167, 241-245): the exit code
\* is not 0 when a file is in the way
MkdirFails(fs, d) == \E q \in Prefixes(d) : q \in DOMAIN fs.files
Mkdir(fs, d) ==
    IF MkdirFails(fs, d) THEN fs ELSE [fs EXCEPT !.dirs = @ \cup Prefixes(d)]

\* put_archive(d, a tar of one entry `name`) (sandbox.py:172, 255): the
\* engine refuses when d is no directory or the entry would replace one
PutFails(fs, d, name) == d \notin fs.dirs \/ (d \o <<name>>) \in fs.dirs
PutArchive(fs, d, name, b) == [fs EXCEPT !.files = Put(@, d \o <<name>>, b)]

\* get_archive of docker 7.0 (setup.py:22) gives an iterator of chunks and
\* the stat of the path; the entries are the engine's to choose
GetArchiveStream == "iterator"
Archives(r) ==
    {<<PathOf(FALSE, <<NameOf(r)>>)>>,
     <<PathOf(TRUE, <<"etc", "x">>)>>,
     <<PathOf(FALSE, <<"..", "x">>)>>,
     <<>>}

\* io.BytesIO(x): a bytes-like object is required
BytesIO(x) == IF x = "bytes" THEN "ok" ELSE "TypeError"

\* sandbox.py:199-206: the entries copy_from keeps; tarfile.TarInfo has no
\* method isabs, so the test of the first entry raises AttributeError
MembersToExtract(arch) ==
    IF arch = <<>> THEN "FileNotFoundError" ELSE "AttributeError"

\* sandbox.py:145-150, 219-223: the handlers of read_file and copy_from;
\* only NotFound of the engine becomes FileNotFoundError
ArchiveRaises(exc) ==
    IF exc = "NotFound" THEN "FileNotFoundError" ELSE "SandboxError"

\* an entry copy_from must not write to the host
Unsafe(m) == m.abs \/ Traverses(m)

HostPaths == {"h1", "h2"}

NoOut ==
    [op |-> "none", e |-> "none", p |-> PathOf(FALSE, <<>>), r |-> <<>>,
     h |-> "none", calls |-> <<>>, res |-> <<>>, arch |-> <<>>,
     x |-> "none", f |-> "none"]

\* call o on path p, resolved to r, raised e (or "ok") after the engine
\* calls cs
Out(o, e, p, r, cs) ==
    [NoOut EXCEPT !.op = o, !.e = e, !.p = p, !.r = r, !.calls = cs]

InitSandbox ==
    /\ dsb = SbxNone
    /\ cfs = EmptyFs
    /\ hfs = [h \in {"h1"} |-> Encode(<<"e_acute", "nl", "a">>)]
    /\ origin = <<>>
    /\ destroyed = FALSE
    /\ nops = 0
    /\ out = NoOut

\* ------------------------------------------------- LocalSandboxClient
\* the tasks that share the client, and the calls they make in all
Users == {"u1", "u2"}
MaxClientCalls == 3
MaxLifeCalls == 5

\* the DockerSandbox objects the client makes; no call makes more than one
Boxes == 1..MaxClientCalls
NoBox == 0

\* the frame of a task: the public method it is in, the await it stands
\* at, the DockerSandbox whose create() or cleanup() it runs, and who
\* called that cleanup()
IdleFrame == [pc |-> "idle", op |-> "none", box |-> NoBox, ret |-> "none"]

NoRes == [u |-> "none", op |-> "none", e |-> "none", box |-> NoBox]

InitClient ==
    /\ c_sandbox = NoBox
    /\ c_active = FALSE
    /\ boxes = [b \in Boxes |-> SbxNone]
    /\ nbox = 0
    /\ cu = [u \in Users |-> IdleFrame]
    /\ ccalls = 0
    /\ ccleaned = FALSE
    /\ cfaults = FALSE
    /\ cres = NoRes

\* ----------------------------------------------------------------- Init
\* x: the step of DockerSandbox.create() that raised; f: the step of
\* DockerSandbox.cleanup() that failed
EvX(t, e, i, x, f) == [t |-> t, e |-> e, i |-> i, x |-> x, f |-> f]
Ev(t, e, i) == EvX(t, e, i, "none", "none")
NoEv == Ev(NoTask, "none", UnknownId)

InitManager ==
    /\ now = 0
    /\ sandboxes = {}
    /\ last_used = <<>>
    /\ locks = <<>>
    /\ lockHolder = [l \in {G} \cup LockObjs |-> NoTask]
    /\ lockWaiters = [l \in {G} \cup LockObjs |-> <<>>]
    /\ active = {}
    /\ shutting = FALSE
    /\ cancel_req = FALSE
    /\ tracked = {}
    /\ pc = [t \in Tasks |-> CASE t = Sweep -> "sw_sleep"
                             [] t \in Deleters -> "d_idle"
                             [] OTHER -> "idle"]
    /\ op = [t \in Tasks |-> CASE t = Sweep -> "sweep"
                             [] t \in Deleters -> "gather"
                             [] OTHER -> "none"]
    /\ arg = [t \in Tasks |-> UnknownId]
    /\ lk = [t \in Tasks |-> G]
    /\ polls = [t \in Tasks |-> 0]
    /\ wake = [t \in Tasks |-> IF t = Sweep THEN cleanup_interval ELSE 0]
    /\ rem = <<>>
    /\ ctime = 0
    /\ ev = NoEv
    /\ sbx = [i \in Ids |-> SbxNone]
    /\ nextId = 1
    /\ created = {}
    /\ calls = 0
    /\ idle_since = <<>>

\* a line typed into the shell and a piece of what the shell writes back,
\* each marked with the execute() call it comes from
NoLine == [k |-> 0, kind |-> "none"]
Line(k, kind) == [k |-> k, kind |-> kind]
NoSev == [c |-> NoTask, e |-> "none", k |-> 0, res |-> <<>>, cause |-> "none"]
\* run_command call k of caller c raised for this cause
Failure(c, k, cause) ==
    [c |-> c, e |-> Raised(cause), k |-> k, res |-> <<>>, cause |-> cause]

\* terminal.py:31-74: the session after create(), at its first prompt
InitSession(echo) ==
    /\ echo_on = echo
    /\ tty_in = <<>>
    /\ running = NoLine
    /\ sock = <<>>
    /\ op_lock = NoTask
    /\ spc = [c \in Callers |-> "idle"]
    /\ call = [c \in Callers |-> 0]
    /\ output_buffer = [c \in Callers |-> <<>>]
    /\ result = [c \in Callers |-> <<>>]
    /\ nexec = 0
    /\ caller_of = <<>>
    /\ timed_out = {}
    /\ closed = FALSE
    /\ raised = {}
    /\ sev = NoSev

\* terminal.py:21-29: the object as __init__ leaves it
InitLifecycle ==
    /\ s_socket = FALSE
    /\ s_exec_id = FALSE
    /\ s_wire = 0
    /\ s_opened = FALSE
    /\ s_closed = FALSE
    /\ lpc = [t \in Callers |-> "idle"]
    /\ lcalls = 0
    /\ lev = [t |-> NoTask, m |-> "none", e |-> "none"]

Init ==
    InitManager /\ InitSession(TRUE) /\ InitSandbox /\ InitClient /\ InitLifecycle

\* task t is now at p, in call o on id i
At(t, p, o, i) ==
    /\ pc' = [pc EXCEPT ![t] = p]
    /\ op' = [op EXCEPT ![t] = o]
    /\ arg' = [arg EXCEPT ![t] = i]

\* the call of t returns (or raises) e; the sweep goes on with its snapshot
\* and a task of gather is done
DoneX(t, e, i, x, f) ==
    /\ CASE t = Sweep -> At(t, "sw_scan", "sweep", UnknownId)
         [] t \in Deleters -> At(t, "d_done", "gather", UnknownId)
         [] OTHER -> At(t, "idle", "none", UnknownId)
    /\ ev' = EvX(t, e, i, x, f)

Done(t, e, i) == DoneX(t, e, i, "none", "none")

\* the sweep is not in the middle of a run of its loop: one coroutine runs
\* at a time, up to its next await
Yielded == pc[Sweep] # "sw_scan"

\* the task is resumed with what it awaited, not with a CancelledError
Resumed(t) == Yielded /\ (t = Sweep => ~cancel_req)

\* a caller begins a call
Begin(t) ==
    /\ Yielded
    /\ pc[t] = "idle"
    /\ calls < MaxCalls
    /\ calls' = calls + 1

\* the ids a caller can name: those create_sandbox has returned, and one
\* that it never will
Nameable == created \cup {NeverCreated}

\* -------------------------------------------------------- create_sandbox
\* a capacity check that is off by one: it lets a full pool take one more
CapacityReachedOffByOne == Cardinality(sandboxes) > max_sandboxes

\* manager.py:117: the pool is full
CapacityReached == Cardinality(sandboxes) >= max_sandboxes

\* manager.py:117-123, the global lock held: the capacity check, then
\* ensure_image is awaited with the lock still held
CreateCheck(t, L) ==
    IF CapacityReached
    THEN /\ SetLocks(Release(L, G))
         /\ Done(t, "PoolExhausted", UnknownId)
    ELSE /\ SetLocks(L)
         /\ At(t, "cr_image", "create", UnknownId)
         /\ ev' = NoEv

\* manager.py:106-116: the call, up to the global lock
create_sandbox(t) ==
    /\ Begin(t)
    /\ LET L == Acquire(LockState, G, t) IN
         IF L.h[G] = t THEN CreateCheck(t, L)
         ELSE /\ SetLocks(L)
              /\ At(t, "cr_wait", "create", UnknownId)
              /\ ev' = NoEv
    /\ UNCHANGED <<now, tables, active, flags, lk, polls, wake, sweepVars,
                   sbx, nextId, created, idle_since>>
    /\ UNCHANGED <<sessVars, boxVars, cliVars, lifeVars>>

\* manager.py:116: woken as the holder of the global lock
create_sandbox_locked(t) ==
    /\ Resumed(t)
    /\ pc[t] = "cr_wait"
    /\ lockHolder[G] = t
    /\ CreateCheck(t, LockState)
    /\ UNCHANGED <<now, tables, active, flags, lk, polls, wake,
                   sweepVars, sbx, nextId, created, calls,
                   idle_since>>
    /\ UNCHANGED <<sessVars, boxVars, cliVars, lifeVars>>

\* manager.py:123-133: ensure_image returns; on success the id and its lock
\* are made and DockerSandbox.create() is awaited
ensure_image_done(t) ==
    /\ Resumed(t)
    /\ pc[t] = "cr_image"
    /\ \E found \in BOOLEAN :
         IF found
         THEN /\ nextId <= MaxIds
              /\ locks' = Put(locks, nextId, NewLock(LockState, locks))
              /\ At(t, "cr_prov", "create", nextId)
              /\ nextId' = nextId + 1
              /\ ev' = NoEv
              /\ UNCHANGED lockVars
         ELSE /\ SetLocks(Release(LockState, G))
              /\ Done(t, "ProvisioningError", UnknownId)
              /\ UNCHANGED <<locks, nextId>>
    /\ UNCHANGED <<now, sandboxes, last_used, active, flags, lk, polls,
                   wake, sweepVars, sbx, created, calls,
                   idle_since>>
    /\ UNCHANGED <<sessVars, boxVars, cliVars, lifeVars>>

\* manager.py:133-147: DockerSandbox.create() returns or raises
sandbox_create_done(t) ==
    /\ Resumed(t)
    /\ pc[t] = "cr_prov"
    /\ \E failAt \in Steps \cup {"none"}, fail \in TearFails :
         IF failAt = "none"
         THEN /\ fail = "none"
              /\ sandboxes' = sandboxes \cup {arg[t]}
              /\ last_used' = Put(last_used, arg[t], now)
              /\ sbx' = [sbx EXCEPT ![arg[t]] = SbxReady]
              /\ created' = created \cup {arg[t]}
              /\ idle_since' = Put(idle_since, arg[t], now)
              /\ Done(t, "created", arg[t])
              /\ UNCHANGED locks
         ELSE /\ MayLeave(SandboxCreateFailed(failAt, fail))
              /\ sbx' = [sbx EXCEPT ![arg[t]] = SandboxCreateFailed(failAt, fail)]
              /\ locks' = Pop(locks, arg[t])
              /\ DoneX(t, "ProvisioningError", arg[t], failAt, fail)
              /\ UNCHANGED <<sandboxes, last_used, created, idle_since>>
    /\ SetLocks(Release(LockState, G))
    /\ UNCHANGED <<now, active, flags, lk, polls, wake, sweepVars, nextId, calls>>
    /\ UNCHANGED <<sessVars, boxVars, cliVars, lifeVars>>

\* ----------------------------------------- sandbox_operation, get_sandbox
\* a guard that does not look whether the id is in the pool
GuardEnterUnchecked(t, o, i, L, l) ==
    /\ last_used' = Put(last_used, i, now)
    /\ idle_since' = idle_since
    /\ SetLocks(L)
    /\ active' = active \cup {i}
    /\ At(t, "g_body", o, i)
    /\ ev' = Ev(t, "entered", i)
    /\ lk' = [lk EXCEPT ![t] = l]

\* manager.py:92-101, op_lock l held: the existence check, then the marker
\* and last-used; get_sandbox's body is a bare return, so it leaves the guard
\* in the same segment and its caller then runs a command on the Sandbox
GuardEnter(t, o, i, L, l) ==
    IF i \notin sandboxes
    THEN /\ SetLocks(Release(L, l))
         /\ DoneX(t, "NotFound", i,
                  IF pc[t] = "g_wait_op" THEN "waited" ELSE "none", "none")
         /\ lk' = [lk EXCEPT ![t] = G]
         /\ UNCHANGED <<active, last_used, idle_since>>
    ELSE /\ last_used' = Put(last_used, i, now)
         /\ IF o = "get"
            THEN /\ SetLocks(Release(L, l))
                 /\ At(t, "h_run", o, i)
                 /\ ev' = Ev(t, "handle", i)
                 /\ lk' = [lk EXCEPT ![t] = G]
                 /\ idle_since' = Put(idle_since, i, now)
                 /\ UNCHANGED active
            ELSE /\ SetLocks(L)
                 /\ active' = active \cup {i}
                 /\ At(t, "g_body", o, i)
                 /\ ev' = Ev(t, "entered", i)
                 /\ lk' = [lk EXCEPT ![t] = l]
                 /\ UNCHANGED idle_since

\* a guard that makes a new lock for the id on every entry
GuardLockedFreshLock(t, o, i, L) ==
    LET tbl == Put(locks, i, NewLock(L, locks))
        l == tbl[i]
        L2 == Acquire(Release(L, G), l, t)
    IN  /\ locks' = tbl
        /\ IF L2.h[l] = t THEN GuardEnter(t, o, i, L2, l)
           ELSE /\ SetLocks(L2)
                /\ At(t, "g_wait_op", o, i)
                /\ ev' = NoEv
                /\ lk' = [lk EXCEPT ![t] = l]
                /\ UNCHANGED <<active, last_used, idle_since>>

\* manager.py:82-92, the global lock held: the lock of the id is made if it
\* is missing, the global lock released and op_lock acquired
GuardLocked(t, o, i, L) ==
    LET tbl == IF i \in DOMAIN locks THEN locks
               ELSE Put(locks, i, NewLock(L, locks))
        l == tbl[i]
        L2 == Acquire(Release(L, G), l, t)
    IN  /\ locks' = tbl
        /\ IF L2.h[l] = t THEN GuardEnter(t, o, i, L2, l)
           ELSE /\ SetLocks(L2)
                /\ At(t, "g_wait_op", o, i)
                /\ ev' = NoEv
                /\ lk' = [lk EXCEPT ![t] = l]
                /\ UNCHANGED <<active, last_used, idle_since>>

\* manager.py:76-82 (and 149-154 for get_sandbox): the call, up to the
\* global lock
sandbox_operation(t) ==
    \E o \in {"guard", "get"}, i \in Nameable :
        /\ Begin(t)
        /\ LET L == Acquire(LockState, G, t) IN
             IF L.h[G] = t THEN GuardLocked(t, o, i, L)
             ELSE /\ SetLocks(L)
                  /\ At(t, "g_wait_gl", o, i)
                  /\ ev' = NoEv
                  /\ UNCHANGED <<locks, lk, active, last_used, idle_since>>
        /\ UNCHANGED <<now, sandboxes, flags, polls, wake, sweepVars, sbx,
                       nextId, created>>
        /\ UNCHANGED <<sessVars, boxVars, cliVars, lifeVars>>

\* manager.py:82: woken as the holder of the global lock
sandbox_operation_locked(t) ==
    /\ Resumed(t)
    /\ pc[t] = "g_wait_gl"
    /\ lockHolder[G] = t
    /\ GuardLocked(t, op[t], arg[t], LockState)
    /\ UNCHANGED <<now, sandboxes, flags, polls, wake, sweepVars, sbx,
                   nextId, created, calls>>
    /\ UNCHANGED <<sessVars, boxVars, cliVars, lifeVars>>

\* manager.py:92: woken as the holder of op_lock
sandbox_operation_enter(t) ==
    /\ Resumed(t)
    /\ pc[t] = "g_wait_op"
    /\ lockHolder[lk[t]] = t
    /\ GuardEnter(t, op[t], arg[t], LockState, lk[t])
    /\ UNCHANGED <<now, sandboxes, locks, flags, polls, wake, sweepVars,
                   sbx, nextId, created, calls>>
    /\ UNCHANGED <<sessVars, boxVars, cliVars, lifeVars>>

\* manager.py:102-103: the body of the guard, a run_command on the Sandbox,
\* returns or raises and the guard is left; set.remove raises KeyError when
\* the marker is gone
sandbox_operation_exit(t) ==
    /\ Resumed(t)
    /\ pc[t] = "g_body"
    /\ active' = active \ {arg[t]}
    /\ \E cause \in Causes \cup {"none"} :
         /\ sbx' = [sbx EXCEPT ![arg[t]] = AfterRunCommand(@, cause)]
         /\ DoneX(t, IF arg[t] \in active THEN "exited" ELSE "KeyError",
                  arg[t], Raised(cause), cause)
    /\ SetLocks(Release(LockState, lk[t]))
    /\ lk' = [lk EXCEPT ![t] = G]
    /\ idle_since' = IF arg[t] \in sandboxes THEN Put(idle_since, arg[t], now)
                     ELSE idle_since
    /\ UNCHANGED <<now, tables, flags, polls, wake, sweepVars, nextId,
                   created, calls>>
    /\ UNCHANGED <<sessVars, boxVars, cliVars, lifeVars>>

\* test_sandbox_manager.py:42-44: the command run on the Sandbox that
\* get_sandbox returned comes back
handle_command_done(t) ==
    /\ Resumed(t)
    /\ pc[t] = "h_run"
    /\ \E cause \in Causes \cup {"none"} :
         /\ sbx' = [sbx EXCEPT ![arg[t]] = AfterRunCommand(@, cause)]
         /\ DoneX(t, "ran", arg[t], Raised(cause), cause)
    /\ UNCHANGED <<now, tables, lockVars, active, flags, lk, polls, wake,
                   sweepVars, nextId, created, calls,
                   idle_since>>
    /\ UNCHANGED <<sessVars, boxVars, cliVars, lifeVars>>

\* ------------------------------------------------- _safe_delete_sandbox
\* the call _safe_delete_sandbox is part of: the sweep, or delete_sandbox
DeleteOp(t) == IF t = Sweep THEN "sweep" ELSE "delete"

\* a removal that forgets the lock of the id
SafeDeletePopKeepsLock(t, i, L) ==
    /\ sandboxes' = sandboxes \ {i}
    /\ last_used' = Pop(last_used, i)
    /\ locks' = locks
    /\ idle_since' = Pop(idle_since, i)
    /\ SetLocks(Release(L, G))
    /\ IF i \in sandboxes
       THEN At(t, "sd_tear", DeleteOp(t), i) /\ ev' = Ev(t, "removed", i)
       ELSE Done(t, "deleted", i)
    /\ polls' = [polls EXCEPT ![t] = 0]
    /\ wake' = [wake EXCEPT ![t] = 0]

\* manager.py:233-244, the global lock held: the id leaves the three tables;
\* a Sandbox that was there is then torn down
SafeDeletePop(t, i, L) ==
    /\ sandboxes' = sandboxes \ {i}
    /\ last_used' = Pop(last_used, i)
    /\ locks' = Pop(locks, i)
    /\ idle_since' = Pop(idle_since, i)
    /\ SetLocks(Release(L, G))
    /\ IF i \in sandboxes
       THEN At(t, "sd_tear", DeleteOp(t), i) /\ ev' = Ev(t, "removed", i)
       ELSE Done(t, "deleted", i)
    /\ polls' = [polls EXCEPT ![t] = 0]
    /\ wake' = [wake EXCEPT ![t] = 0]

\* manager.py:233: the global lock is acquired
SafeDeleteAcquire(t, i, L) ==
    LET L2 == Acquire(L, G, t) IN
    IF L2.h[G] = t THEN SafeDeletePop(t, i, L2)
    ELSE /\ SetLocks(L2)
         /\ At(t, "sd_wait_pop", DeleteOp(t), i)
         /\ ev' = NoEv
         /\ polls' = [polls EXCEPT ![t] = 0]
         /\ wake' = [wake EXCEPT ![t] = 0]
         /\ UNCHANGED <<tables, idle_since>>

\* manager.py:215-228: entry; an active operation starts the grace loop
SafeDelete(t, i, L) ==
    IF i \in active
    THEN /\ SetLocks(L)
         /\ At(t, "sd_poll", DeleteOp(t), i)
         /\ ev' = NoEv
         /\ polls' = [polls EXCEPT ![t] = 1]
         /\ wake' = [wake EXCEPT ![t] = now + PollSleep]
         /\ UNCHANGED <<tables, idle_since>>
    ELSE SafeDeleteAcquire(t, i, L)

\* a grace loop that never gives up
GraceLeftAlways(n) == TRUE

\* manager.py:224: `for _ in range(10)`, n sleeps done so far
GraceLeft(n) == n < GracePolls

\* manager.py:224-228: a sleep of the grace loop ends; the loop goes on
\* while the operation is active and iterations are left
safe_delete_poll(t) ==
    /\ Resumed(t)
    /\ pc[t] = "sd_poll"
    /\ now >= wake[t]
    /\ IF GraceLeft(polls[t]) /\ arg[t] \in active
       THEN /\ polls' = [polls EXCEPT ![t] = @ + 1]
            /\ wake' = [wake EXCEPT ![t] = now + PollSleep]
            /\ ev' = NoEv
            /\ UNCHANGED <<tables, lockVars, taskVars, idle_since>>
       ELSE SafeDeleteAcquire(t, arg[t], LockState)
    /\ UNCHANGED <<now, active, flags, lk, sweepVars, sbx, nextId, created, calls>>
    /\ UNCHANGED <<sessVars, boxVars, cliVars, lifeVars>>

\* manager.py:233: woken as the holder of the global lock
safe_delete_locked(t) ==
    /\ Resumed(t)
    /\ pc[t] = "sd_wait_pop"
    /\ lockHolder[G] = t
    /\ SafeDeletePop(t, arg[t], LockState)
    /\ UNCHANGED <<now, active, flags, lk, sweepVars, sbx, nextId, created, calls>>
    /\ UNCHANGED <<sessVars, boxVars, cliVars, lifeVars>>

\* a teardown whose failure ends the sweep it is part of
AfterTeardownRaises(t, fail) ==
    IF fail # "none" /\ t = Sweep
    THEN /\ At(t, "sw_scan", "sweep", UnknownId)
         /\ ev' = EvX(t, "TeardownError", arg[t], "none", fail)
         /\ rem' = <<>>
         /\ UNCHANGED ctime
    ELSE /\ DoneX(t, "deleted", arg[t], "none", fail)
         /\ UNCHANGED sweepVars

\* manager.py:209-213, 238-240, sandbox.py:295-349: the errors of the steps
\* of DockerSandbox.cleanup() are logged, _safe_delete_sandbox returns and
\* the loop of the sweep (manager.py:189) goes on with the ids it has left
AfterTeardown(t, fail) ==
    /\ DoneX(t, "deleted", arg[t], "none", fail)
    /\ UNCHANGED sweepVars

\* manager.py:207-213, 238-240: DockerSandbox.cleanup() comes back; what it
\* could not remove stays behind and nothing is raised
teardown_done(t) ==
    /\ Resumed(t)
    /\ pc[t] = "sd_tear"
    /\ \E fail \in TearFails :
         /\ MayLeave(SandboxCleanup(sbx[arg[t]], fail))
         /\ sbx' = [sbx EXCEPT ![arg[t]] = SandboxCleanup(@, fail)]
         /\ AfterTeardown(t, fail)
    /\ UNCHANGED <<now, tables, lockVars, active, flags, lk, polls, wake,
                   nextId, created, calls,
                   idle_since>>
    /\ UNCHANGED <<sessVars, boxVars, cliVars, lifeVars>>

\* manager.py:247-261
delete_sandbox(t) ==
    \E i \in Nameable :
        /\ Begin(t)
        /\ IF i \notin sandboxes /\ i \notin DOMAIN locks
           THEN /\ Done(t, "noop", i)
                /\ UNCHANGED <<tables, lockVars, polls, wake, idle_since>>
           ELSE SafeDelete(t, i, LockState)
        /\ UNCHANGED <<now, active, flags, lk, sweepVars, sbx, nextId,
                       created>>
        /\ UNCHANGED <<sessVars, boxVars, cliVars, lifeVars>>

\* ---------------------------------------------------------------- cleanup
\* manager.py:305-309, the global lock held: the final clear of the tables
CleanupClear(t, L) ==
    /\ sandboxes' = {}
    /\ last_used' = <<>>
    /\ locks' = <<>>
    /\ idle_since' = <<>>
    /\ active' = {}
    /\ SetLocks(Release(L, G))
    /\ pc' = [u \in Tasks |-> IF u = t THEN "idle" ELSE pc[u]]
    /\ op' = [op EXCEPT ![t] = "none"]
    /\ arg' = [arg EXCEPT ![t] = UnknownId]
    /\ ev' = Ev(t, "cleaned", UnknownId)

\* manager.py:305: the global lock is acquired for the final clear
CleanupToClear(t, L) ==
    LET L2 == Acquire(L, G, t) IN
    IF L2.h[G] = t THEN CleanupClear(t, L2)
    ELSE /\ SetLocks(L2)
         /\ At(t, "cl_wait_clear", "cleanup", UnknownId)
         /\ ev' = NoEv
         /\ UNCHANGED <<tables, idle_since, active>>

\* a cleanup() that clears the tables without tearing anything down
CleanupSpawnNoGather(t, L) == CleanupToClear(t, Release(L, G))

\* manager.py:291-300, the global lock held: the snapshot of the ids, then
\* one task of gather for each of them
CleanupSpawn(t, L) ==
    IF sandboxes = {}
    THEN CleanupToClear(t, Release(L, G))
    ELSE /\ SetLocks(Release(L, G))
         /\ pc' = [u \in Tasks |->
                     CASE u = t -> "cl_gather"
                       [] \E i \in sandboxes : u = DeleterOf(i) -> "sd_start"
                       [] OTHER -> pc[u]]
         /\ op' = [op EXCEPT ![t] = "cleanup"]
         /\ arg' = [u \in Tasks |->
                      IF \E i \in sandboxes : u = DeleterOf(i)
                      THEN CHOOSE i \in sandboxes : u = DeleterOf(i)
                      ELSE IF u = t THEN UnknownId ELSE arg[u]]
         /\ ev' = NoEv
         /\ UNCHANGED <<tables, idle_since, active>>

\* manager.py:277-291: after the sweep task, the global lock for the snapshot
CleanupSnapshot(t, L) ==
    LET L2 == Acquire(L, G, t) IN
    IF L2.h[G] = t THEN CleanupSpawn(t, L2)
    ELSE /\ SetLocks(L2)
         /\ At(t, "cl_wait_snap", "cleanup", UnknownId)
         /\ ev' = NoEv
         /\ UNCHANGED <<tables, idle_since, active>>

\* manager.py:264-272: the call; the flag is set, the sweep task cancelled and
\* awaited.  One cleanup() runs at a time here.
cleanup(t) ==
    /\ Begin(t)
    /\ \A u \in Callers : op[u] # "cleanup"
    /\ shutting' = TRUE
    /\ tracked' = sandboxes
    /\ IF pc[Sweep] # "sw_stopped"
       THEN /\ cancel_req' = TRUE
            /\ At(t, "cl_wait_task", "cleanup", UnknownId)
            /\ ev' = NoEv
            /\ UNCHANGED <<tables, idle_since, active, lockVars>>
       ELSE /\ CleanupSnapshot(t, LockState)
            /\ UNCHANGED cancel_req
    /\ UNCHANGED <<now, lk, polls, wake, sweepVars, sbx, nextId, created>>
    /\ UNCHANGED <<sessVars, boxVars, cliVars, lifeVars>>

\* manager.py:272-277: the sweep task has ended
cleanup_task_done(t) ==
    /\ Yielded
    /\ pc[t] = "cl_wait_task"
    /\ pc[Sweep] = "sw_stopped"
    /\ CleanupSnapshot(t, LockState)
    /\ UNCHANGED <<now, flags, lk, polls, wake, sweepVars, sbx, nextId,
                   created, calls>>
    /\ UNCHANGED <<sessVars, boxVars, cliVars, lifeVars>>

\* manager.py:291, 305: woken as the holder of the global lock
cleanup_locked(t) ==
    /\ Yielded
    /\ pc[t] \in {"cl_wait_snap", "cl_wait_clear"}
    /\ lockHolder[G] = t
    /\ IF pc[t] = "cl_wait_snap" THEN CleanupSpawn(t, LockState)
       ELSE CleanupClear(t, LockState)
    /\ UNCHANGED <<now, flags, lk, polls, wake, sweepVars, sbx, nextId,
                   created, calls>>
    /\ UNCHANGED <<sessVars, boxVars, cliVars, lifeVars>>

\* manager.py:215-233: a task of gather runs _safe_delete_sandbox up to its
\* first await
safe_delete_start(t) ==
    /\ Yielded
    /\ pc[t] = "sd_start"
    /\ SafeDelete(t, arg[t], LockState)
    /\ UNCHANGED <<now, active, flags, lk, sweepVars, sbx, nextId, created,
                   calls>>
    /\ UNCHANGED <<sessVars, boxVars, cliVars, lifeVars>>

\* manager.py:300-305: every task of gather is done
cleanup_gathered(t) ==
    /\ Yielded
    /\ pc[t] = "cl_gather"
    /\ \A d \in Deleters : pc[d] \in {"d_idle", "d_done"}
    /\ LET L2 == Acquire(LockState, G, t) IN
         IF L2.h[G] = t
         THEN /\ CleanupClear(t, L2)
         ELSE /\ SetLocks(L2)
              /\ pc' = [u \in Tasks |-> IF u = t THEN "cl_wait_clear"
                                       ELSE pc[u]]
              /\ ev' = NoEv
              /\ UNCHANGED <<tables, idle_since, active, op, arg>>
    /\ UNCHANGED <<now, flags, lk, polls, wake, sweepVars, sbx, nextId,
                   created, calls>>
    /\ UNCHANGED <<sessVars, boxVars, cliVars, lifeVars>>

\* ------------------------------------------------------------ idle sweep
RECURSIVE SeqOf(_)
\* list(self._sandboxes.keys()): insertion order, which is the order of ids
SeqOf(S) ==
    IF S = {} THEN <<>>
    ELSE LET m == CHOOSE x \in S : \A y \in S : x <= y
         IN <<m>> \o SeqOf(S \ {m})

\* manager.py:196
IdleTooLong(cur, lu) == cur - lu > idle_timeout

\* manager.py:165-185: the sleep of cleanup_loop ends and a sweep begins
sweep_wake ==
    /\ Resumed(Sweep)
    /\ pc[Sweep] = "sw_sleep"
    /\ now >= wake[Sweep]
    /\ IF shutting
       THEN /\ pc' = [pc EXCEPT ![Sweep] = "sw_stopped"]
            /\ UNCHANGED sweepVars
       ELSE /\ pc' = [pc EXCEPT ![Sweep] = "sw_scan"]
            /\ ctime' = now
            /\ rem' = SeqOf(sandboxes)
    /\ wake' = [wake EXCEPT ![Sweep] = 0]
    /\ ev' = NoEv
    /\ UNCHANGED <<now, tables, lockVars, active, flags, op, arg, lk, polls,
                   sbx, nextId, created, calls,
                   idle_since>>
    /\ UNCHANGED <<sessVars, boxVars, cliVars, lifeVars>>

\* manager.py:190-204, the global lock held: one id of the snapshot is
\* looked at, the lock released, and an idle sandbox is deleted
SweepRead(L) ==
    LET i == Head(rem)
        L1 == Release(L, G)
    IN  /\ rem' = Tail(rem)
        /\ IF /\ i \in sandboxes
              /\ i \notin active
              /\ IdleTooLong(ctime, last_used[i])
           THEN SafeDelete(Sweep, i, L1)
           ELSE /\ SetLocks(L1)
                /\ At(Sweep, "sw_scan", "sweep", UnknownId)
                /\ ev' = NoEv
                /\ UNCHANGED <<tables, polls, wake, idle_since>>

\* manager.py:189-190 and 165-167: the next id of the snapshot, or the end
\* of the sweep and the next sleep
sweep_scan ==
    /\ pc[Sweep] = "sw_scan"
    /\ IF rem = <<>>
       THEN /\ pc' = [pc EXCEPT ![Sweep] = "sw_sleep"]
            /\ wake' = [wake EXCEPT ![Sweep] = now + cleanup_interval]
            /\ ctime' = 0
            /\ ev' = NoEv
            /\ UNCHANGED <<tables, lockVars, polls, rem, op, arg, idle_since>>
       ELSE /\ LET L == Acquire(LockState, G, Sweep) IN
                IF L.h[G] = Sweep THEN SweepRead(L)
                ELSE /\ SetLocks(L)
                     /\ pc' = [pc EXCEPT ![Sweep] = "sw_wait_read"]
                     /\ ev' = NoEv
                     /\ UNCHANGED <<tables, polls, wake, rem, op, arg, idle_since>>
            /\ UNCHANGED ctime
    /\ UNCHANGED <<now, active, flags, lk, sbx, nextId, created, calls>>
    /\ UNCHANGED <<sessVars, boxVars, cliVars, lifeVars>>

\* manager.py:190: woken as the holder of the global lock
sweep_locked ==
    /\ Resumed(Sweep)
    /\ pc[Sweep] = "sw_wait_read"
    /\ lockHolder[G] = Sweep
    /\ SweepRead(LockState)
    /\ UNCHANGED <<now, active, flags, lk, ctime, sbx, nextId, created, calls>>
    /\ UNCHANGED <<sessVars, boxVars, cliVars, lifeVars>>

\* Lock.acquire() cancelled: the task leaves the queue, and a lock it was
\* just handed goes on to the next waiter
RECURSIVE Without(_, _)
Without(q, t) ==
    IF q = <<>> THEN <<>>
    ELSE IF Head(q) = t THEN Without(Tail(q), t)
    ELSE <<Head(q)>> \o Without(Tail(q), t)

CancelAcquire(L, l, t) ==
    IF L.h[l] = t THEN Release(L, l)
    ELSE [L EXCEPT !.w[l] = Without(@, t)]

\* manager.py:170-172: the CancelledError of cleanup() reaches the sweep at
\* the await it is suspended in, and the loop ends
sweep_cancelled ==
    /\ Yielded
    /\ cancel_req
    /\ cancel_req' = FALSE
    /\ pc' = [pc EXCEPT ![Sweep] = "sw_stopped"]
    /\ arg' = [arg EXCEPT ![Sweep] = UnknownId]
    /\ rem' = <<>>
    /\ ctime' = 0
    /\ wake' = [wake EXCEPT ![Sweep] = 0]
    /\ polls' = [polls EXCEPT ![Sweep] = 0]
    /\ IF pc[Sweep] \in {"sw_wait_read", "sd_wait_pop"}
       THEN SetLocks(CancelAcquire(LockState, G, Sweep))
       ELSE UNCHANGED lockVars
    /\ IF pc[Sweep] = "sd_tear"
       THEN \E at \in CleanupAwaits :
              /\ sbx' = [sbx EXCEPT ![arg[Sweep]] =
                                        SandboxCleanupCancelled(@, at)]
              /\ ev' = EvX(Sweep, "cancelled", arg[Sweep], "none", at)
       ELSE /\ ev' = Ev(Sweep, "cancelled", UnknownId)
            /\ UNCHANGED sbx
    /\ UNCHANGED <<now, tables, idle_since, active, shutting, tracked, op, lk,
                   nextId, created, calls>>
    /\ UNCHANGED <<sessVars, boxVars, cliVars, lifeVars>>

\* ------------------------------------------------------------------ time
\* a task the event loop can run now
Ready(t) ==
    \/ pc[t] \in {"cr_wait", "g_wait_gl", "sw_wait_read", "sd_wait_pop"}
          /\ lockHolder[G] = t
    \/ pc[t] = "g_wait_op" /\ lockHolder[lk[t]] = t
    \/ pc[t] \in {"sw_scan", "sd_start"}
    \/ pc[t] \in {"sw_sleep", "sd_poll"} /\ now >= wake[t]
    \/ pc[t] \in {"cl_wait_snap", "cl_wait_clear"} /\ lockHolder[G] = t
    \/ pc[t] = "cl_wait_task" /\ pc[Sweep] = "sw_stopped"
    \/ pc[t] = "cl_gather" /\ \A d \in Deleters : pc[d] \in {"d_idle", "d_done"}
    \/ t = Sweep /\ cancel_req

Tick ==
    /\ now < MaxTime
    /\ \A t \in Tasks : ~Ready(t)
    /\ now' = now + 1
    /\ ev' = NoEv
    /\ UNCHANGED <<tables, lockVars, active, flags, pc, op, arg, lk, polls,
                   wake, sweepVars, sbx, nextId, created, calls,
                   idle_since>>
    /\ UNCHANGED <<sessVars, boxVars, cliVars, lifeVars>>

Next ==
    \/ \E t \in Callers :
        \/ create_sandbox(t)
        \/ create_sandbox_locked(t)
        \/ ensure_image_done(t)
        \/ sandbox_create_done(t)
        \/ sandbox_operation(t)
        \/ sandbox_operation_locked(t)
        \/ sandbox_operation_enter(t)
        \/ sandbox_operation_exit(t)
        \/ handle_command_done(t)
        \/ delete_sandbox(t)
        \/ cleanup(t)
        \/ cleanup_task_done(t)
        \/ cleanup_locked(t)
        \/ cleanup_gathered(t)
    \/ \E t \in Deleters : safe_delete_start(t)
    \/ \E t \in Tasks :
        \/ safe_delete_poll(t)
        \/ safe_delete_locked(t)
        \/ teardown_done(t)
    \/ sweep_wake
    \/ sweep_scan
    \/ sweep_locked
    \/ sweep_cancelled
    \/ Tick

\* ---------------------------------------------------------- DockerSession
\* the shell: bash on a tty with PS1='$ ' (terminal.py:40-52).  It reads one
\* line at a time, runs it, writes what the line prints and then its prompt.
EchoOf(l) == Line(l.k, "echo_" \o l.kind)
Printed(l) ==
    Line(l.k, CASE l.kind = "cmd" -> "out"
                [] l.kind = "rc" -> "rc"
                [] OTHER -> "sent")
Prompt(l) == Line(l.k, "prompt")

\* terminal.py:152: sanitized_command, echo $?, echo sentinel
FullCommand(k) == <<Line(k, "cmd"), Line(k, "rc"), Line(k, "sent")>>

\* terminal.py:166: the sentinel of call k is in the buffer; the echo of the
\* typed line "echo <sentinel>" holds it as well as the line it prints
IsSentinel(x, k) == x.k = k /\ x.kind \in {"echo_sent", "sent"}
HasSentinel(b, k) == \E j \in 1..Len(b) : IsSentinel(b[j], k)

\* terminal.py:174: rpartition, all that is before the last occurrence of the
\* sentinel; of the echoed line the word "echo" is before it
\* (rpartition gives an empty head when the sentinel is not there)
BeforeSentinel(b, k) ==
    IF ~HasSentinel(b, k) THEN <<>>
    ELSE
    LET last == CHOOSE j \in 1..Len(b) :
                    /\ IsSentinel(b[j], k)
                    /\ \A m \in (j + 1)..Len(b) : ~IsSentinel(b[m], k)
    IN  SubSeq(b, 1, last - 1)
          \o (IF b[last].kind = "echo_sent" THEN <<Line(k, "echo_word")>>
              ELSE <<>>)

\* terminal.py:177-186: the last line is dropped when it is a bare number,
\* that is the printed exit status on a line of its own
ExitCodeLast(b) ==
    /\ Len(b) > 0
    /\ b[Len(b)].kind = "rc"
    /\ (Len(b) > 1 => b[Len(b) - 1].kind # "prompt")

\* terminal.py:188-189: the echoed command is dropped from the front
EchoFirst(b, k) == Len(b) > 0 /\ b[1] = Line(k, "echo_cmd")

\* terminal.py:173-192: processed_output
ProcessedOutput(b, k) ==
    LET before == BeforeSentinel(b, k)
        lines == IF ExitCodeLast(before)
                 THEN SubSeq(before, 1, Len(before) - 1) ELSE before
    IN  IF EchoFirst(lines, k) THEN Tail(lines) ELSE lines

\* the commands a caller gives: one the deny-list lets through, one that
\* holds a pattern of the deny-list, one that is blank
Commands == {"plain", "risky", "blank"}

\* terminal.py:214-230: _sanitize_command raises ValueError for a blank
\* command and for one that holds a risky pattern
SanitizerVetoes(cmd) == cmd \in {"risky", "blank"}

\* an execute() that writes the command before it looks at it
SentUnchecked(k, cmd) == FullCommand(k)

\* terminal.py:149-154: what execute() call k writes to the socket; the
\* sanitizer raises before sendall is reached
Sent(k, cmd) == IF SanitizerVetoes(cmd) THEN <<>> ELSE FullCommand(k)

\* a wait for the prompt that takes the end of the stream for a prompt
PromptWaitAtEofReturns == "return"

\* terminal.py:125-128: _read_until_prompt on an empty read
PromptWaitAtEof == "socket.error"

\* the guard of the manager is entered (manager.py:92-101) and execute()
\* sanitizes and sends the command (terminal.py:143-154); a veto is raised
\* at once and the guard left
execute(c) ==
    /\ spc[c] = "idle"
    /\ op_lock = NoTask
    /\ nexec < MaxExec
    /\ nexec' = nexec + 1
    /\ caller_of' = Put(caller_of, nexec + 1, c)
    /\ \E cmd \in Commands :
         /\ tty_in' = IF closed THEN tty_in
                      ELSE tty_in \o Sent(nexec + 1, cmd)
         /\ IF SanitizerVetoes(cmd)
            THEN /\ sev' = Failure(c, nexec + 1, "rejected")
                 /\ raised' = raised \cup
                                {[cause |-> "rejected", kind |-> Raised("rejected")]}
                 /\ UNCHANGED <<op_lock, call, spc, output_buffer>>
            ELSE /\ op_lock' = c
                 /\ call' = [call EXCEPT ![c] = nexec + 1]
                 /\ spc' = [spc EXCEPT ![c] = "reading"]
                 /\ output_buffer' = [output_buffer EXCEPT ![c] = <<>>]
                 /\ sev' = NoSev
                 /\ UNCHANGED raised
    /\ UNCHANGED <<echo_on, running, sock, result, timed_out, closed>>
    /\ UNCHANGED <<mgrVars, boxVars, cliVars, lifeVars>>

\* terminal.py:158-193: recv returns what has arrived; the loop ends when
\* the sentinel is in the buffer
read_output_with_sentinel(c) ==
    /\ spc[c] = "reading"
    /\ sock # <<>>
    /\ sock' = <<>>
    /\ LET b == output_buffer[c] \o sock IN
         IF HasSentinel(b, call[c])
         THEN /\ result' = [result EXCEPT ![c] = ProcessedOutput(b, call[c])]
              /\ output_buffer' = [output_buffer EXCEPT ![c] = <<>>]
              /\ spc' = [spc EXCEPT ![c] = "prompt"]
         ELSE /\ output_buffer' = [output_buffer EXCEPT ![c] = b]
              /\ UNCHANGED <<result, spc>>
    /\ sev' = NoSev
    /\ UNCHANGED <<echo_on, tty_in, running, op_lock, call, nexec, caller_of,
                   timed_out, closed, raised>>
    /\ UNCHANGED <<mgrVars, boxVars, cliVars, lifeVars>>

\* terminal.py:196, 201-209: wait_for gives up; the error is raised and the
\* caller leaves the guard (manager.py:102-103)
execute_timeout(c) ==
    /\ spc[c] = "reading"
    /\ timed_out' = timed_out \cup {call[c]}
    /\ sev' = Failure(c, call[c], "timeout")
    /\ raised' = raised \cup {[cause |-> "timeout", kind |-> Raised("timeout")]}
    /\ spc' = [spc EXCEPT ![c] = "idle"]
    /\ output_buffer' = [output_buffer EXCEPT ![c] = <<>>]
    /\ op_lock' = NoTask
    /\ UNCHANGED <<echo_on, tty_in, running, sock, call, result, nexec,
                   caller_of, closed>>
    /\ UNCHANGED <<mgrVars, boxVars, cliVars, lifeVars>>

\* terminal.py:116-141, 198-199: after the sentinel the prompt is read, then
\* execute() returns and the caller leaves the guard
read_until_prompt(c) ==
    /\ spc[c] = "prompt"
    /\ sock # <<>>
    /\ sock' = <<>>
    /\ LET b == output_buffer[c] \o sock IN
         IF b[Len(b)].kind = "prompt"
         THEN /\ sev' = [c |-> c, e |-> "returned", k |-> call[c],
                         res |-> result[c], cause |-> "none"]
              /\ spc' = [spc EXCEPT ![c] = "idle"]
              /\ output_buffer' = [output_buffer EXCEPT ![c] = <<>>]
              /\ result' = [result EXCEPT ![c] = <<>>]
              /\ op_lock' = NoTask
         ELSE /\ output_buffer' = [output_buffer EXCEPT ![c] = b]
              /\ sev' = NoSev
              /\ UNCHANGED <<spc, result, op_lock>>
    /\ UNCHANGED <<echo_on, tty_in, running, call, nexec, caller_of,
                   timed_out, closed, raised>>
    /\ UNCHANGED <<mgrVars, boxVars, cliVars, lifeVars>>

\* terminal.py:161-163, 173-193, 198, 125-128: recv returns b"" at the end of
\* a closed stream.  The read loop for the sentinel breaks and makes a result
\* of what it has; the wait for the prompt that follows, or that was going
\* on, meets the empty read too and raises.
read_closed(c) ==
    /\ spc[c] \in {"reading", "prompt"}
    /\ closed
    /\ sock = <<>>
    /\ LET res == IF spc[c] = "reading"
                  THEN ProcessedOutput(output_buffer[c], call[c])
                  ELSE result[c]
       IN  IF PromptWaitAtEof = "return"
           THEN /\ sev' = [c |-> c, e |-> "returned", k |-> call[c],
                           res |-> res, cause |-> "none"]
                /\ UNCHANGED raised
           ELSE /\ sev' = Failure(c, call[c], "closed")
                /\ raised' = raised \cup
                               {[cause |-> "closed", kind |-> Raised("closed")]}
    /\ spc' = [spc EXCEPT ![c] = "idle"]
    /\ output_buffer' = [output_buffer EXCEPT ![c] = <<>>]
    /\ result' = [result EXCEPT ![c] = <<>>]
    /\ op_lock' = NoTask
    /\ UNCHANGED <<echo_on, tty_in, running, sock, call, nexec, caller_of,
                   timed_out, closed>>
    /\ UNCHANGED <<mgrVars, boxVars, cliVars, lifeVars>>

\* the shell reads its next line; the tty echoes it
shell_read ==
    /\ ~closed
    /\ running = NoLine
    /\ tty_in # <<>>
    /\ running' = Head(tty_in)
    /\ tty_in' = Tail(tty_in)
    /\ sock' = IF echo_on THEN Append(sock, EchoOf(Head(tty_in))) ELSE sock
    /\ sev' = NoSev
    /\ UNCHANGED <<echo_on, op_lock, spc, call, output_buffer, result, nexec,
                   caller_of, timed_out, closed, raised>>
    /\ UNCHANGED <<mgrVars, boxVars, cliVars, lifeVars>>

\* the line ends: what it printed and the next prompt are written
shell_done ==
    /\ ~closed
    /\ running # NoLine
    /\ sock' = sock \o <<Printed(running), Prompt(running)>>
    /\ running' = NoLine
    /\ sev' = NoSev
    /\ UNCHANGED <<echo_on, tty_in, op_lock, spc, call, output_buffer, result,
                   nexec, caller_of, timed_out, closed, raised>>
    /\ UNCHANGED <<mgrVars, boxVars, cliVars, lifeVars>>

\* the shell exits or the container stops: the peer closes the stream; what
\* it wrote before can still be read
peer_close ==
    /\ ~closed
    /\ closed' = TRUE
    /\ running' = NoLine
    /\ tty_in' = <<>>
    /\ sev' = NoSev
    /\ UNCHANGED <<echo_on, sock, op_lock, spc, call, output_buffer, result,
                   nexec, caller_of, timed_out, raised>>
    /\ UNCHANGED <<mgrVars, boxVars, cliVars, lifeVars>>

NextSession ==
    \/ \E c \in Callers :
        \/ execute(c)
        \/ read_output_with_sentinel(c)
        \/ execute_timeout(c)
        \/ read_until_prompt(c)
        \/ read_closed(c)
    \/ shell_read
    \/ shell_done
    \/ peer_close

\* one session used by the callers of one sandbox, with or without tty echo
InitEither ==
    /\ InitManager
    /\ \E echo \in BOOLEAN : InitSession(echo)
    /\ InitSandbox
    /\ InitClient
    /\ InitLifecycle

SpecSession == InitEither /\ [][NextSession]_vars

\* the coroutines of the callers run whenever they can, the timer of
\* wait_for fires, and the shell goes on with what it was given
SessionFairness ==
    /\ \A c \in Callers :
         /\ WF_vars(read_output_with_sentinel(c))
         /\ WF_vars(read_until_prompt(c))
         /\ WF_vars(read_closed(c))
         /\ WF_vars(execute_timeout(c))
    /\ WF_vars(shell_read)
    /\ WF_vars(shell_done)

SpecSessionLive == SpecSession /\ SessionFairness

\* ------------------------------------------ DockerSandbox, used directly
\* one more call on the object
BoxCall ==
    /\ nops < MaxOps
    /\ nops' = nops + 1

\* sandbox.py:46-98: create() on an object that holds no container; a step
\* that raises is followed by cleanup() and SandboxError
sandbox_create ==
    /\ BoxCall
    /\ ~dsb.handle /\ ~dsb.terminal
    /\ \E failAt \in Steps \cup {"none"}, fail \in TearFails :
         /\ failAt = "none" => fail = "none"
         /\ fail = "remove" => Partial(failAt).handle
         /\ fail = "rmtree" => Partial(failAt).disk
         /\ dsb' = IF failAt = "none" THEN SbxReady
                   ELSE SandboxCreateFailed(failAt, fail)
         /\ out' = [Out("create",
                        IF failAt = "none" THEN "ok" ELSE "SandboxError",
                        PathOf(FALSE, <<>>), <<>>,
                        IF failAt = "dir" THEN <<>> ELSE <<"create_container">>)
                    EXCEPT !.x = failAt, !.f = fail]
    /\ cfs' = EmptyFs
    /\ origin' = <<>>
    /\ UNCHANGED <<hfs, destroyed>>
    /\ UNCHANGED <<mgrVars, sessVars, cliVars, lifeVars>>

\* sandbox.py:292-351: cleanup(); nothing is raised
sandbox_cleanup ==
    /\ BoxCall
    /\ \E fail \in TearFails :
         /\ fail = "remove" => dsb.handle
         /\ fail = "rmtree" => dsb.path /\ dsb.disk
         /\ dsb' = SandboxCleanup(dsb, fail)
         /\ out' = [Out("cleanup", "ok", PathOf(FALSE, <<>>), <<>>,
                        IF dsb.handle THEN <<"stop", "remove">> ELSE <<>>)
                    EXCEPT !.f = fail]
    /\ cfs' = IF dsb'.engine THEN cfs ELSE EmptyFs
    /\ origin' = IF dsb'.engine THEN origin ELSE <<>>
    /\ destroyed' = TRUE
    /\ UNCHANGED hfs
    /\ UNCHANGED <<mgrVars, sessVars, cliVars, lifeVars>>

\* sandbox.py:109-121
run_command ==
    /\ BoxCall
    /\ \E cause \in Causes \cup {"none"} :
         /\ ~dsb.terminal => cause = "none"
         /\ dsb' = AfterRunCommand(dsb, cause)
         /\ out' = IF ~dsb.terminal
                   THEN Out("run_command", "SandboxError",
                            PathOf(FALSE, <<>>), <<>>, <<>>)
                   ELSE Out("run_command",
                            IF cause = "none" THEN "ok" ELSE Raised(cause),
                            PathOf(FALSE, <<>>), <<>>, <<"execute">>)
    /\ UNCHANGED <<cfs, hfs, origin, destroyed>>
    /\ UNCHANGED <<mgrVars, sessVars, cliVars, lifeVars>>

\* sandbox.py:133-150: get_archive gives an iterator, io.BytesIO refuses it
\* and the TypeError is raised again as SandboxError
ReadFile(p) ==
    LET r == resolve_container_path(p) IN
    IF ~dsb.handle
    THEN Out("read_file", "SandboxError", p, <<>>, <<>>)
    ELSE IF r.e # "ok"
    THEN Out("read_file", r.e, p, <<>>, <<>>)
    ELSE IF ~Exists(cfs, r.path)
    THEN Out("read_file", ArchiveRaises("NotFound"), p, r.path,
             <<"get_archive">>)
    ELSE IF BytesIO(GetArchiveStream) # "ok"
    THEN Out("read_file", ArchiveRaises(BytesIO(GetArchiveStream)), p,
             r.path, <<"get_archive">>)
    ELSE IF r.path \notin DOMAIN cfs.files
    THEN Out("read_file", "SandboxError", p, r.path, <<"get_archive">>)
    ELSE [Out("read_file", "ok", p, r.path, <<"get_archive">>)
          EXCEPT !.res = Decode(cfs.files[r.path])]

read_file ==
    /\ BoxCall
    /\ \E p \in SandboxPaths : out' = ReadFile(p)
    /\ UNCHANGED <<dsb, cfs, hfs, origin, destroyed>>
    /\ UNCHANGED <<mgrVars, sessVars, cliVars, lifeVars>>

\* sandbox.py:161-176 and 237-263: the parent directory is made, then a tar
\* of one entry is put into it; what is raised on the way is raised again
\* as SandboxError
PutFile(o, p, r, b, by) ==
    LET d == Parent(r)
        made == Mkdir(cfs, d)
    IN  IF MkdirFails(cfs, d)
        THEN /\ out' = Out(o, "SandboxError", p, r, <<"exec_run">>)
             /\ UNCHANGED <<cfs, origin>>
        ELSE IF PutFails(made, d, NameOf(r))
        THEN /\ out' = Out(o, "SandboxError", p, r,
                           <<"exec_run", "put_archive">>)
             /\ cfs' = made
             /\ UNCHANGED origin
        ELSE /\ out' = Out(o, "ok", p, r, <<"exec_run", "put_archive">>)
             /\ cfs' = PutArchive(made, d, NameOf(r), b)
             /\ origin' = Put(origin, r, by)

\* sandbox.py:152-176
write_file ==
    /\ BoxCall
    /\ \E p \in SandboxPaths, c \in Texts :
         LET r == resolve_container_path(p) IN
         IF ~dsb.handle
         THEN /\ out' = Out("write_file", "SandboxError", p, <<>>, <<>>)
              /\ UNCHANGED <<cfs, origin>>
         ELSE IF r.e # "ok"
         THEN /\ out' = Out("write_file", r.e, p, <<>>, <<>>)
              /\ UNCHANGED <<cfs, origin>>
         ELSE PutFile("write_file", p, r.path, Encode(c),
                      [by |-> "write_file", c |-> c])
    /\ UNCHANGED <<dsb, hfs, destroyed>>
    /\ UNCHANGED <<mgrVars, sessVars, cliVars, lifeVars>>

\* sandbox.py:225-263
copy_to ==
    /\ BoxCall
    /\ \E h \in HostPaths, p \in SandboxPaths :
         LET r == resolve_container_path(p) IN
         IF ~dsb.handle
         THEN /\ out' = [Out("copy_to", "SandboxError", p, <<>>, <<>>)
                         EXCEPT !.h = h]
              /\ UNCHANGED <<cfs, origin>>
         ELSE IF r.e # "ok"
         THEN /\ out' = [Out("copy_to", r.e, p, <<>>, <<>>) EXCEPT !.h = h]
              /\ UNCHANGED <<cfs, origin>>
         ELSE IF h \notin DOMAIN hfs
         THEN /\ out' = [Out("copy_to", "FileNotFoundError", p, r.path, <<>>)
                         EXCEPT !.h = h]
              /\ UNCHANGED <<cfs, origin>>
         ELSE PutFile("copy_to", p, r.path, hfs[h],
                      [by |-> "copy_to", c |-> hfs[h]])
    /\ UNCHANGED <<dsb, hfs, destroyed>>
    /\ UNCHANGED <<mgrVars, sessVars, cliVars, lifeVars>>

\* sandbox.py:178-223: tarfile.open(fileobj=io.BytesIO(...)) is given the
\* iterator and raises; the loop over the entries and extractall are not
\* reached, and nothing is written to the host
CopyFrom(p, h, arch) ==
    LET r == resolve_container_path(p) IN
    IF ~dsb.handle
    THEN Out("copy_from", "SandboxError", p, <<>>, <<>>)
    ELSE IF r.e # "ok"
    THEN Out("copy_from", r.e, p, <<>>, <<>>)
    ELSE IF ~Exists(cfs, r.path)
    THEN Out("copy_from", ArchiveRaises("NotFound"), p, r.path,
             <<"get_archive">>)
    ELSE [Out("copy_from",
              ArchiveRaises(IF BytesIO(GetArchiveStream) # "ok"
                            THEN BytesIO(GetArchiveStream)
                            ELSE MembersToExtract(arch)),
              p, r.path, <<"get_archive">>)
          EXCEPT !.arch = arch]

copy_from ==
    /\ BoxCall
    /\ \E p \in SandboxPaths, h \in HostPaths :
         \E arch \in Archives(p.parts) :
            out' = [CopyFrom(p, h, arch) EXCEPT !.h = h]
    /\ UNCHANGED <<dsb, cfs, hfs, origin, destroyed>>
    /\ UNCHANGED <<mgrVars, sessVars, cliVars, lifeVars>>

NextSandbox ==
    \/ sandbox_create
    \/ sandbox_cleanup
    \/ run_command
    \/ read_file
    \/ write_file
    \/ copy_to
    \/ copy_from

SpecSandbox == Init /\ [][NextSandbox]_vars

\* ------------------------------------------------- LocalSandboxClient
\* The client has no lock.  A task runs from one await to the next; S is
\* the state as the task u sees and changes it on the way.
CS(u) ==
    [u |-> u, sandbox |-> c_sandbox, active |-> c_active, boxes |-> boxes,
     nbox |-> nbox, fr |-> cu[u], res |-> cres]

Apply(S) ==
    /\ c_sandbox' = S.sandbox
    /\ c_active' = S.active
    /\ boxes' = S.boxes
    /\ nbox' = S.nbox
    /\ cu' = [cu EXCEPT ![S.u] = S.fr]
    /\ cres' = S.res

\* the public method returns, or raises e
Return(S, e) ==
    [S EXCEPT !.fr = IdleFrame,
              !.res = [u |-> S.u, op |-> S.fr.op, e |-> e, box |-> S.fr.box]]

\* client.py:101-102 and sandbox.py:50-70: a new DockerSandbox is stored,
\* its directory is made and create_container is awaited
Provision(S) ==
    LET b == S.nbox + 1 IN
    [S EXCEPT !.nbox = b, !.sandbox = b,
              !.boxes[b] = [SbxNone EXCEPT !.path = TRUE, !.disk = TRUE],
              !.fr.pc = "create_container", !.fr.box = b, !.fr.ret = "none"]

\* client.py:126 and sandbox.py:109-121: run_command of the stored object
RunCommand(S) ==
    IF ~S.boxes[S.sandbox].terminal
    THEN Return([S EXCEPT !.fr.box = S.sandbox], "SandboxError")
    ELSE [S EXCEPT !.fr.pc = "op", !.fr.box = S.sandbox]

\* create() has returned: to the caller, or to _ensure_sandbox_active
\* (client.py:111-126), which looks at the two fields again
Created(S) ==
    IF S.fr.op = "create" THEN Return(S, "ok")
    ELSE IF ~S.active \/ S.sandbox = NoBox THEN Return(S, "RuntimeError")
    ELSE RunCommand(S)

\* client.py:105-109
ClientCreateRaises(S) ==
    Return([S EXCEPT !.sandbox = NoBox, !.active = FALSE], "SandboxError")

\* DockerSandbox.cleanup() has returned to the one who called it:
\* client.cleanup() called by create() (client.py:95-96, 162-164), the
\* public client.cleanup(), or the handler of DockerSandbox.create()
CleanupReturned(S) ==
    CASE S.fr.ret = "create" ->
           Provision([S EXCEPT !.sandbox = NoBox, !.active = FALSE])
      [] S.fr.ret = "cleanup" ->
           Return([S EXCEPT !.sandbox = NoBox, !.active = FALSE], "ok")
      [] OTHER -> ClientCreateRaises(S)

\* sandbox.py:336-346: rmtree is not awaited
CleanupDir(S, fail) ==
    LET b == S.fr.box
        s == S.boxes[b]
    IN  CleanupReturned(
          [S EXCEPT !.boxes[b] =
              IF s.path /\ s.disk
              THEN [s EXCEPT !.path = FALSE, !.disk = (fail = "rmtree")]
              ELSE s])

\* sandbox.py:306-334: stop and remove are awaited when a handle is held
CleanupContainer(S, fail) ==
    IF S.boxes[S.fr.box].handle THEN [S EXCEPT !.fr.pc = "remove"]
    ELSE CleanupDir(S, fail)

\* sandbox.py:292-304: cleanup() of object b, up to its first await
CleanupFrom(S, b, ret, fail) ==
    LET S1 == [S EXCEPT !.fr.box = b, !.fr.ret = ret] IN
    IF S.boxes[b].terminal THEN [S1 EXCEPT !.fr.pc = "close"]
    ELSE CleanupContainer(S1, fail)

\* client.py:79-102, 111-126, 153-165: the public method up to its first
\* await
ClientCall(S, fail) ==
    IF S.fr.op = "cleanup"
    THEN IF S.sandbox # NoBox
         THEN CleanupFrom(S, S.sandbox, "cleanup", fail)
         ELSE Return([S EXCEPT !.active = FALSE], "ok")
    ELSE IF S.active /\ S.sandbox # NoBox THEN Created(S)
    ELSE IF S.sandbox # NoBox THEN CleanupFrom(S, S.sandbox, "create", fail)
    ELSE Provision(S)

\* a task calls create(), run_command() or cleanup() of the client
client_call(u, o) ==
    /\ cu[u].pc = "idle"
    /\ ccalls < MaxClientCalls
    /\ ccalls' = ccalls + 1
    /\ ccleaned' = (ccleaned \/ o = "cleanup")
    /\ \E fail \in {"none", "rmtree"} :
         /\ cfaults' = (cfaults \/ fail # "none")
         /\ Apply(ClientCall([CS(u) EXCEPT !.fr.op = o], fail))
    /\ UNCHANGED <<mgrVars, sessVars, boxVars, lifeVars>>

\* sandbox.py:70-81: create_container has ended; the handle is fetched and
\* start is awaited
create_container_done(u) ==
    /\ cu[u].pc = "create_container"
    /\ \E failAt \in {"none", "container", "handle"}, fail \in {"none", "rmtree"} :
         LET b == cu[u].box
             S == CS(u)
         IN  /\ failAt = "none" => fail = "none"
             /\ cfaults' = (cfaults \/ failAt # "none" \/ fail # "none")
             /\ Apply(CASE failAt = "none" ->
                             [S EXCEPT !.boxes[b].engine = TRUE,
                                       !.boxes[b].handle = TRUE,
                                       !.fr.pc = "start"]
                        [] failAt = "handle" ->
                             CleanupFrom([S EXCEPT !.boxes[b].engine = TRUE],
                                         b, "raise", fail)
                        [] OTHER -> CleanupFrom(S, b, "raise", fail))
    /\ UNCHANGED <<ccalls, ccleaned>>
    /\ UNCHANGED <<mgrVars, sessVars, boxVars, lifeVars>>

\* sandbox.py:81-88: start has ended; the terminal is made from
\* self.container.id and its init is awaited
start_done(u) ==
    /\ cu[u].pc = "start"
    /\ \E ok \in BOOLEAN, fail \in {"none", "rmtree"} :
         LET b == cu[u].box
             S == CS(u)
             can == boxes[b].engine /\ boxes[b].handle
         IN  /\ ok => can /\ fail = "none"
             /\ cfaults' = (cfaults \/ (~ok /\ can) \/ fail # "none")
             /\ Apply(IF ok
                      THEN [S EXCEPT !.boxes[b].terminal = TRUE,
                                     !.fr.pc = "terminal_init"]
                      ELSE CleanupFrom(S, b, "raise", fail))
    /\ UNCHANGED <<ccalls, ccleaned>>
    /\ UNCHANGED <<mgrVars, sessVars, boxVars, lifeVars>>

\* sandbox.py:88-90 and client.py:103: the terminal is ready, create()
\* returns and the client is marked active
terminal_init_done(u) ==
    /\ cu[u].pc = "terminal_init"
    /\ \E ok \in BOOLEAN, fail \in {"none", "rmtree"} :
         LET b == cu[u].box
             S == CS(u)
             can == boxes[b].engine
         IN  /\ ok => can /\ fail = "none"
             /\ cfaults' = (cfaults \/ (~ok /\ can) \/ fail # "none")
             /\ Apply(IF ok THEN Created([S EXCEPT !.active = TRUE])
                      ELSE CleanupFrom(S, b, "raise", fail))
    /\ UNCHANGED <<ccalls, ccleaned>>
    /\ UNCHANGED <<mgrVars, sessVars, boxVars, lifeVars>>

\* sandbox.py:296-304: terminal.close() has ended
close_done(u) ==
    /\ cu[u].pc = "close"
    /\ \E fail \in {"none", "rmtree"} :
         /\ cfaults' = (cfaults \/ fail # "none")
         /\ Apply(CleanupContainer(
                    [CS(u) EXCEPT !.boxes[cu[u].box].terminal = FALSE], fail))
    /\ UNCHANGED <<ccalls, ccleaned>>
    /\ UNCHANGED <<mgrVars, sessVars, boxVars, lifeVars>>

\* sandbox.py:308-334: stop and remove have ended
remove_done(u) ==
    /\ cu[u].pc = "remove"
    /\ \E fail \in TearFails :
         LET b == cu[u].box IN
         /\ fail = "remove" => boxes[b].engine
         /\ cfaults' = (cfaults \/ fail # "none")
         /\ Apply(CleanupDir(
                    [CS(u) EXCEPT !.boxes[b].handle = FALSE,
                                  !.boxes[b].engine =
                                      (@ /\ fail = "remove")], fail))
    /\ UNCHANGED <<ccalls, ccleaned>>
    /\ UNCHANGED <<mgrVars, sessVars, boxVars, lifeVars>>

\* sandbox.py:116-121: run_command of the object has ended
op_done(u) ==
    /\ cu[u].pc = "op"
    /\ LET b == cu[u].box
           can == boxes[b].engine /\ boxes[b].terminal
       IN  \E ok \in BOOLEAN :
             /\ ok => can
             /\ cfaults' = (cfaults \/ (~ok /\ can))
             /\ Apply(Return(CS(u), IF ok THEN "ok" ELSE "SandboxError"))
    /\ UNCHANGED <<ccalls, ccleaned>>
    /\ UNCHANGED <<mgrVars, sessVars, boxVars, lifeVars>>

NextClient ==
    \/ \E u \in Users, o \in {"create", "run_command", "cleanup"} :
         client_call(u, o)
    \/ \E u \in Users : create_container_done(u)
    \/ \E u \in Users : start_done(u)
    \/ \E u \in Users : terminal_init_done(u)
    \/ \E u \in Users : close_done(u)
    \/ \E u \in Users : remove_done(u)
    \/ \E u \in Users : op_done(u)

SpecClient == Init /\ [][NextClient]_vars

Spec == Init /\ [][Next]_vars

\* what the event loop, the container engine and the clock do of their own:
\* a coroutine that can be resumed is resumed, a call into the engine comes
\* back, a sleep ends.  The body of a guarded operation and the command run
\* on a Sandbox taken with get_sandbox may never come back, and no caller has
\* to begin another call.
ManagerProgress ==
    \/ \E t \in Callers :
        \/ create_sandbox_locked(t)
        \/ ensure_image_done(t)
        \/ sandbox_create_done(t)
        \/ sandbox_operation_locked(t)
        \/ sandbox_operation_enter(t)
        \/ cleanup_task_done(t)
        \/ cleanup_locked(t)
        \/ cleanup_gathered(t)
    \/ \E t \in Deleters : safe_delete_start(t)
    \/ \E t \in Tasks :
        \/ safe_delete_poll(t)
        \/ safe_delete_locked(t)
        \/ teardown_done(t)
    \/ sweep_wake
    \/ sweep_scan
    \/ sweep_locked
    \/ sweep_cancelled
    \/ Tick

SpecLive == Spec /\ WF_vars(ManagerProgress)

\* the same, and every body of a guarded operation comes to its end
SpecLiveBodies ==
    /\ SpecLive
    /\ \A t \in Callers : WF_vars(sandbox_operation_exit(t))

PcValues == {"idle", "cr_wait", "cr_image", "cr_prov", "g_wait_gl",
             "g_wait_op", "g_body", "h_run", "sd_poll", "sd_wait_pop",
             "sd_tear", "sw_sleep", "sw_scan", "sw_wait_read", "sw_stopped",
             "cl_wait_task", "cl_wait_snap", "cl_gather", "cl_wait_clear",
             "sd_start", "d_idle", "d_done"}

TypeOK ==
    /\ now \in 0..MaxTime
    /\ sandboxes \subseteq Ids
    /\ DOMAIN last_used = sandboxes
    /\ DOMAIN idle_since = sandboxes
    /\ sandboxes \subseteq created
    /\ tracked \subseteq created
    /\ DOMAIN locks \subseteq Ids \cup {NeverCreated}
    /\ \A i \in DOMAIN locks : locks[i] \in LockObjs
    /\ active \subseteq Ids
    /\ pc \in [Tasks -> PcValues]
    /\ arg \in [Tasks -> Ids \cup {UnknownId, NeverCreated}]
    /\ lk \in [Tasks -> LockObjs \cup {G}]
    /\ calls \in 0..MaxCalls
    /\ nextId \in 1..(MaxIds + 1)
    /\ echo_on \in BOOLEAN
    /\ op_lock \in Callers \cup {NoTask}
    /\ spc \in [Callers -> {"idle", "reading", "prompt"}]
    /\ call \in [Callers -> 0..MaxExec]
    /\ nexec \in 0..MaxExec
    /\ DOMAIN caller_of = 1..nexec
    /\ timed_out \subseteq 1..nexec
    /\ closed \in BOOLEAN
    /\ \A r \in raised : r.cause \in Causes
    /\ \A c \in Callers : spc[c] # "idle" => op_lock = c

\* ------------------------------------------- DockerSession, its lifecycle
\* terminal.py:145: what execute() asks of the session before it goes on
SessionReady == s_socket /\ s_exec_id

\* the call of m by t has ended with e, or awaits something
LifeEv(t, m, e) == [t |-> t, m |-> m, e |-> e]

\* a call on the session begins
LifeCall(t) ==
    /\ lpc[t] = "idle"
    /\ lcalls < MaxLifeCalls
    /\ lcalls' = lcalls + 1

\* terminal.py:31-74: create() asks the engine for the exec and its socket,
\* keeps both and waits for the first prompt; a failure of exec_create
\* leaves the fields as they were, a failure of exec_start leaves exec_id set
session_create(t) ==
    /\ LifeCall(t)
    /\ \E engine \in {"ok", "exec_create fails", "exec_start fails"} :
         CASE engine = "ok" ->
                /\ s_exec_id' = TRUE
                /\ s_socket' = TRUE
                /\ lpc' = [lpc EXCEPT ![t] = "cr_prompt"]
                /\ lev' = LifeEv(t, "create", "awaits")
           [] engine = "exec_create fails" ->
                /\ lev' = LifeEv(t, "create", "APIError")
                /\ UNCHANGED <<s_exec_id, s_socket, lpc>>
           [] OTHER ->
                /\ s_exec_id' = TRUE
                /\ lev' = LifeEv(t, "create", "APIError")
                /\ UNCHANGED <<s_socket, lpc>>
    /\ UNCHANGED <<s_wire, s_opened, s_closed>>
    /\ UNCHANGED <<mgrVars, sessVars, boxVars, cliVars>>

\* terminal.py:74, 116-141: the first prompt is read and create() returns,
\* or the read raises: the socket was taken away by a close(), or the peer
\* closed the stream
session_create_prompt(t) ==
    /\ lpc[t] = "cr_prompt"
    /\ lpc' = [lpc EXCEPT ![t] = "idle"]
    /\ IF ~s_socket
       THEN /\ lev' = LifeEv(t, "create", "socket.error")
            /\ UNCHANGED s_opened
       ELSE \E got \in {"prompt", "eof"} :
              IF got = "prompt"
              THEN /\ lev' = LifeEv(t, "create", "returned")
                   /\ s_opened' = TRUE
              ELSE /\ lev' = LifeEv(t, "create", "socket.error")
                   /\ UNCHANGED s_opened
    /\ UNCHANGED <<s_socket, s_exec_id, s_wire, s_closed, lcalls>>
    /\ UNCHANGED <<mgrVars, sessVars, boxVars, cliVars>>

\* terminal.py:99-112 up to the inspection: with an exec_id the exec is
\* inspected; one that still runs is waited for half a second
CloseExec(t) ==
    IF s_exec_id
    THEN \E still_running \in BOOLEAN :
           IF still_running
           THEN /\ lpc' = [lpc EXCEPT ![t] = "cl_wait"]
                /\ lev' = LifeEv(t, "close", "awaits")
                /\ UNCHANGED <<s_exec_id, s_closed>>
           ELSE /\ s_exec_id' = FALSE
                /\ lpc' = [lpc EXCEPT ![t] = "idle"]
                /\ s_closed' = s_opened
                /\ lev' = LifeEv(t, "close", "returned")
    ELSE /\ lpc' = [lpc EXCEPT ![t] = "idle"]
         /\ s_closed' = s_opened
         /\ lev' = LifeEv(t, "close", "returned")
         /\ UNCHANGED s_exec_id

\* terminal.py:76-82, 99-112: close() with a socket writes "exit" and sleeps;
\* without one it goes on to the exec at once
session_close(t) ==
    /\ LifeCall(t)
    /\ IF s_socket
       THEN /\ s_wire' = s_wire + 1
            /\ lpc' = [lpc EXCEPT ![t] = "cl_sleep"]
            /\ lev' = LifeEv(t, "close", "awaits")
            /\ UNCHANGED <<s_exec_id, s_closed>>
       ELSE /\ CloseExec(t)
            /\ UNCHANGED s_wire
    /\ UNCHANGED <<s_socket, s_opened>>
    /\ UNCHANGED <<mgrVars, sessVars, boxVars, cliVars>>

\* terminal.py:88-114: after the sleep the socket is shut down, closed and
\* forgotten, then the exec is seen to.  When another close() has taken the
\* socket meanwhile, self.socket.close() raises AttributeError on None, the
\* outer handler logs it and close() returns with exec_id as it is.
session_close_resume(t) ==
    /\ lpc[t] = "cl_sleep"
    /\ IF s_socket
       THEN /\ s_socket' = FALSE
            /\ CloseExec(t)
       ELSE /\ lpc' = [lpc EXCEPT ![t] = "idle"]
            /\ s_closed' = s_opened
            /\ lev' = LifeEv(t, "close", "returned")
            /\ UNCHANGED <<s_socket, s_exec_id>>
    /\ UNCHANGED <<s_wire, s_opened, lcalls>>
    /\ UNCHANGED <<mgrVars, sessVars, boxVars, cliVars>>

\* terminal.py:104, 112: the wait for the exec is over, exec_id is forgotten
session_close_end(t) ==
    /\ lpc[t] = "cl_wait"
    /\ s_exec_id' = FALSE
    /\ lpc' = [lpc EXCEPT ![t] = "idle"]
    /\ s_closed' = s_opened
    /\ lev' = LifeEv(t, "close", "returned")
    /\ UNCHANGED <<s_socket, s_wire, s_opened, lcalls>>
    /\ UNCHANGED <<mgrVars, sessVars, boxVars, cliVars>>

\* terminal.py:143-154: execute() raises before anything is written when the
\* socket or the exec_id is missing; otherwise it writes its three lines and
\* reads.  It looks at nothing else: not at a create() that still waits for
\* its prompt, not at an execute() that is reading.
session_execute(t) ==
    /\ LifeCall(t)
    /\ IF ~SessionReady
       THEN /\ lev' = LifeEv(t, "execute", "RuntimeError")
            /\ UNCHANGED <<s_wire, lpc>>
       ELSE /\ s_wire' = s_wire + 1
            /\ lpc' = [lpc EXCEPT ![t] = "ex_read"]
            /\ lev' = LifeEv(t, "execute", "awaits")
    /\ UNCHANGED <<s_socket, s_exec_id, s_opened, s_closed>>
    /\ UNCHANGED <<mgrVars, sessVars, boxVars, cliVars>>

\* terminal.py:156-212: the read ends: with the sentinel and the prompt,
\* with the timeout, or with an error (the socket was taken away by a
\* close(), or the peer closed the stream)
session_execute_end(t) ==
    /\ lpc[t] = "ex_read"
    /\ lpc' = [lpc EXCEPT ![t] = "idle"]
    /\ IF ~s_socket
       THEN lev' = LifeEv(t, "execute", "RuntimeError")
       ELSE \E e \in {"returned", "TimeoutError", "RuntimeError"} :
              lev' = LifeEv(t, "execute", e)
    /\ UNCHANGED <<s_socket, s_exec_id, s_wire, s_opened, s_closed, lcalls>>
    /\ UNCHANGED <<mgrVars, sessVars, boxVars, cliVars>>

NextLifecycle ==
    \E t \in Callers :
        \/ session_create(t)
        \/ session_create_prompt(t)
        \/ session_close(t)
        \/ session_close_resume(t)
        \/ session_close_end(t)
        \/ session_execute(t)
        \/ session_execute_end(t)

\* one DockerSession object and the tasks that call its methods
SpecLifecycle == Init /\ [][NextLifecycle]_vars

\* ------------------------------------------------------------- properties
InBody(t, i) == pc[t] = "g_body" /\ arg[t] = i

\* C1: at every moment the pool tracks at most max_sandboxes sandboxes,
\* whatever way create, delete, guarded operations and the idle sweep
\* interleave.
C1_PoolBounded == Cardinality(sandboxes) <= max_sandboxes

\* the pool is full and one more create_sandbox is waiting for its turn
C1_Witness ==
    /\ Cardinality(sandboxes) = max_sandboxes
    /\ \E t \in Callers : pc[t] = "cr_wait"

\* C2: a sandbox the idle sweep removes and tears down has no operation in
\* flight: its id is not in the active-operations set while the sweep tears
\* it down.
C2_SweepSparesActive ==
    pc[Sweep] = "sd_tear" => arg[Sweep] \notin active

\* C3: for every sandbox id at most one caller is inside the body of
\* sandbox_operation(id).
C3_OneInBody ==
    \A i \in Ids : Cardinality({t \in Callers : InBody(t, i)}) <= 1

\* one caller is inside the body while another waits for the lock of that id
C3_Witness ==
    \E t, u \in Callers :
        /\ InBody(t, arg[t])
        /\ pc[u] = "g_wait_op" /\ arg[u] = arg[t]
        /\ lk[u] = lk[t]

\* C4: while a caller uses the Sandbox that get_sandbox(id) returned, the id
\* is marked active and the caller holds the lock of the id.
C4_HandleGuarded ==
    \A t \in Callers :
        pc[t] = "h_run" =>
            /\ arg[t] \in active
            /\ arg[t] \in DOMAIN locks
            /\ lockHolder[locks[arg[t]]] = t

\* the capacity check of a create_sandbox call of t happens in this step
Rejected(t) ==
    /\ pc[t] \in {"idle", "cr_wait"}
    /\ ev' = Ev(t, "PoolExhausted", UnknownId)
Admitted(t) == pc[t] # "cr_image" /\ pc'[t] = "cr_image"

\* C5: create_sandbox is rejected with the pool-exhausted error exactly when
\* its capacity check finds max_sandboxes sandboxes tracked, the rejection
\* leaves the three tables as they were, and a create_sandbox whose check
\* finds fewer (a delete having completed) is admitted.
C5_ExhaustedOnlyWhenFull ==
    [][\A t \in Callers :
         /\ Rejected(t) =>
              /\ Cardinality(sandboxes) = max_sandboxes
              /\ tables' = tables
         /\ Admitted(t) => Cardinality(sandboxes) < max_sandboxes
         /\ (pc[t] = "cr_wait" /\ pc'[t] # "cr_wait") =>
              (Rejected(t) \/ Admitted(t))]_vars

\* a create_sandbox was just rejected by a full pool
C5_Witness ==
    /\ ev.e = "PoolExhausted"
    /\ Cardinality(sandboxes) = max_sandboxes

\* the step in which a delete_sandbox call of t takes the id out, and the
\* step in which that call returns
Removes(t) == pc[t] # "sd_tear" /\ pc'[t] = "sd_tear"
Returns(t) ==
    /\ pc'[t] = "idle"
    /\ \/ pc[t] \in {"sd_poll", "sd_wait_pop", "sd_tear"}
       \/ pc[t] = "idle" /\ ev'.t = t /\ ev'.e \in {"deleted", "noop"}

\* C8: a delete_sandbox call on a tracked id takes the id out of the
\* sandbox, last-used and lock tables in one step, and returns normally
\* with the id tracked no more, also when the teardown of the Sandbox fails.
C8_DeleteRemoves ==
    [][\A t \in Callers :
         /\ Removes(t) =>
              /\ op'[t] = "delete"
              /\ arg'[t] \in sandboxes
              /\ arg'[t] \notin sandboxes'
              /\ arg'[t] \notin DOMAIN last_used'
              /\ arg'[t] \notin DOMAIN locks'
         /\ Returns(t) =>
              /\ ev'.t = t /\ ev'.e \in {"deleted", "noop"}
              /\ ev'.i \notin sandboxes'
              /\ ev'.i \notin DOMAIN last_used'
              /\ ev'.e = "noop" => ev'.i \notin DOMAIN locks'
         /\ (pc[t] = "sd_tear" /\ pc'[t] # "sd_tear") => Returns(t)]_vars

\* a delete_sandbox call has returned although its teardown failed
C8_Witness ==
    /\ ev.e = "deleted" /\ ev.t \in Callers
    /\ ev.f # "none"
    /\ Leaked(sbx[ev.i])
    /\ ev.i \notin sandboxes
    /\ ev.i \notin DOMAIN locks

\* C9: a sandbox with no operation in flight is out of the pool no later
\* than cleanup_interval + idle_timeout after it became idle.
C9_IdleRemovedInTime ==
    \A i \in sandboxes :
        i \notin active =>
            now <= idle_since[i] + cleanup_interval + idle_timeout

\* C10: when create_sandbox raises the provisioning error, the id it made
\* is in no table, and, the steps of the rollback having all succeeded, no
\* container, session or scratch directory of it remains.
C10_FailedCreateLeavesNothing ==
    (ev.e = "ProvisioningError" /\ ev.i \in Ids /\ ev.f = "none") =>
        /\ ev.i \notin sandboxes
        /\ ev.i \notin DOMAIN last_used
        /\ ev.i \notin DOMAIN locks
        /\ sbx[ev.i] = SbxNone

\* the pieces of a result that the call k did not produce
Foreign(res, k) == {j \in 1..Len(res) : res[j].k # k}

\* C6: a run_command that returns after an earlier run_command on the
\* session has raised CommandTimeout returns nothing the timed-out command
\* produced: no output, exit status, sentinel or prompt of it.
C6_NoStrayOutput ==
    sev.e = "returned" =>
        \A j \in 1..Len(sev.res) : sev.res[j].k \notin timed_out

\* C7: with callers contending for one sandbox through the guard, a
\* run_command returns nothing that the command of another caller produced.
C7_OwnOutputOnly ==
    sev.e = "returned" =>
        \A j \in Foreign(sev.res, sev.k) : caller_of[sev.res[j].k] = sev.c

\* DockerSandbox.cleanup() has run to its end on the Sandbox of id i
TornDown(i) == ~sbx[i].terminal /\ ~sbx[i].handle

\* a delete_sandbox call took the id out of the tables and is tearing its
\* Sandbox down
BeingDeleted(i) ==
    \E t \in Callers : pc[t] = "sd_tear" /\ op[t] = "delete" /\ arg[t] = i

\* cleanup() has just returned
Cleaned == ev.e = "cleaned"

AllTablesEmpty ==
    /\ sandboxes = {}
    /\ DOMAIN last_used = {}
    /\ DOMAIN locks = {}
    /\ active = {}

AfterCleanup == shutting /\ \A t \in Callers : op[t] # "cleanup"

\* C12: after cleanup() has returned, create_sandbox is admitted again while
\* the pool is below max_sandboxes, and a sandbox created afterwards with no
\* operation in flight is out of the pool no later than cleanup_interval +
\* idle_timeout after it became idle.
C12_ReusableAfterCleanup ==
    AfterCleanup =>
        /\ \A t \in Callers :
             (ev = Ev(t, "PoolExhausted", UnknownId)) =>
                 Cardinality(sandboxes) = max_sandboxes
        /\ \A i \in sandboxes :
             i \notin active =>
                 now <= idle_since[i] + cleanup_interval + idle_timeout

\* the step in which a run_command made through the guard, or on the
\* Sandbox that get_sandbox returned, fails
BodyFailed(t) ==
    /\ pc[t] \in {"g_body", "h_run"}
    /\ pc'[t] = "idle"
    /\ ev'.f \in Causes

\* C15: a run_command that runs out of time raises the timeout error, and
\* neither that nor an execution error disposes of anything: the session,
\* the container and the scratch directory of the Sandbox and its entries
\* in the tables of the manager are after the error what they were before.
C15_ErrorsKeepSandbox ==
    [][\A t \in Callers :
         BodyFailed(t) =>
             /\ ev'.f = "timeout" => ev'.x = "SandboxTimeoutError"
             /\ sbx' = sbx
             /\ tables' = tables]_vars

\* a guarded run_command has timed out on a sandbox that is still whole and
\* still in the pool
C15_Witness ==
    /\ ev.e = "exited" /\ ev.f = "timeout"
    /\ ev.i \in sandboxes
    /\ sbx[ev.i] = SbxReady

\* the step in which t calls delete_sandbox(i)
DeleteCalled(t, i) ==
    /\ pc[t] = "idle"
    /\ calls' # calls
    /\ \/ pc'[t] \in {"sd_poll", "sd_wait_pop", "sd_tear"} /\ arg'[t] = i
       \/ /\ pc'[t] = "idle"
          /\ ev'.t = t /\ ev'.e \in {"noop", "deleted"} /\ ev'.i = i

\* the id is not in the pool and no removal of it is under way: it was never
\* created, or the call that deleted it has returned
Gone(i) ==
    /\ i \notin sandboxes
    /\ \A t \in Tasks :
         ~(pc[t] \in {"sd_start", "sd_poll", "sd_wait_pop", "sd_tear"}
             /\ arg[t] = i)

\* C19: a delete_sandbox on an id that was never created, or that a
\* completed delete has removed, returns at once, changes none of the
\* tables, takes no lock and tears nothing down.
C19_DeleteAgainIsNoop ==
    [][\A t \in Callers, i \in Ids \cup {NeverCreated} :
         (DeleteCalled(t, i) /\ Gone(i)) =>
             /\ ev' = Ev(t, "noop", i)
             /\ tables' = tables
             /\ active' = active
             /\ lockVars' = lockVars
             /\ sbx' = sbx]_vars

\* the step in which the guard of t decides about its id
GuardDecided(t) ==
    \/ pc[t] = "g_wait_op" /\ pc'[t] # "g_wait_op"
    \/ /\ pc[t] \in {"idle", "g_wait_gl"}
       /\ ev'.t = t
       /\ ev'.e \in {"NotFound", "handle", "entered"}

\* C20: get_sandbox and the guard give the Sandbox of an id only if the id
\* is in the pool at that moment, and the Sandbox is then whole; for an id
\* that is not in the pool they raise NotFound, also for a caller that
\* waited for the lock of the id while the id was removed.
C20_NotFoundWhenAbsent ==
    [][\A t \in Callers :
         GuardDecided(t) =>
             /\ ev'.t = t
             /\ IF ev'.i \in sandboxes
                THEN /\ ev'.e \in {"handle", "entered"}
                     /\ ~TornDown(ev'.i)
                ELSE /\ ev'.e = "NotFound"
                     /\ pc'[t] = "idle"]_vars

\* a caller that waited for the lock of an id which was removed meanwhile
\* has got NotFound
C20_Witness ==
    /\ ev.e = "NotFound" /\ ev.x = "waited"
    /\ ev.i \in created
    /\ ev.i \notin sandboxes

\* C13: a run_command whose command the sanitizer refuses fails, and the
\* stream and the session are after the call exactly what they were before.
C13_VetoWritesNothing ==
    [][(sev'.cause = "rejected" /\ sev'.k # sev.k) =>
          /\ sev'.e # "returned"
          /\ UNCHANGED <<tty_in, running, sock, echo_on, closed, op_lock, spc,
                         call, output_buffer, result>>]_vars

\* a command was refused while the shell was still busy with an earlier one
C13_Witness ==
    /\ sev.cause = "rejected"
    /\ running # NoLine
    /\ tty_in # <<>>

\* C14: the failures of run_command are told apart by their kind: two
\* failures with different causes (a veto of the sanitizer, a timeout, a
\* failure of the execution) never reach the caller as the same kind.
C14_KindsDistinct ==
    \A p, q \in raised : p.cause # q.cause => p.kind # q.kind

\* C16: a run_command that is waiting ends: when its timeout has run out it
\* raises, whatever the shell writes or does not write.
C16_WaitBounded ==
    \A c \in Callers : (spc[c] # "idle") ~> (spc[c] = "idle")

\* the step in which the read loop of c meets the end of a closed stream
\* before the sentinel, or its timeout
LeavesReadAtEof(c) ==
    /\ spc[c] = "reading" /\ closed /\ sock = <<>>
    /\ spc'[c] # "reading"

\* C17: when the peer has closed the stream and the read for the sentinel
\* comes to its end, execute() does not return a result, and the failure
\* that the empty read makes is not of the timeout kind.
C17_EofIsHardFailure ==
    [][\A c \in Callers :
         LeavesReadAtEof(c) =>
             /\ sev'.c = c
             /\ sev'.e # "returned"
             /\ sev'.cause = "closed" => sev'.e # Raised("timeout")]_vars

\* a call whose command was sent has failed at the end of the closed stream
C17_Witness ==
    /\ sev.cause = "closed"
    /\ closed
    /\ sev.e = "SandboxError"

\* C18: a run_command that returns, no earlier call having timed out,
\* returns what its command printed and nothing else.
C18_ExactOutput ==
    (sev.e = "returned" /\ timed_out = {}) =>
        sev.res = <<Line(sev.k, "out")>>

\* a sleep of t's grace loop ends after the last instant of the clock
SleepsPastClock(t) == pc[t] = "sd_poll" /\ wake[t] > MaxTime

\* t is in a delete_sandbox or a cleanup() that has not returned
Deleting(t) == op[t] \in {"delete", "cleanup"}

\* C21: the grace loop of a deletion sleeps at most GracePolls times, and a
\* delete_sandbox or a cleanup() that was called returns, also when the
\* guarded operations that are running never finish (unless the clock of
\* the model ends during a sleep of the grace loop).
C21_DeleteTerminates ==
    /\ [](\A t \in Tasks : polls[t] <= GracePolls)
    /\ \A t \in Callers :
         Deleting(t) ~> \/ ~Deleting(t)
                        \/ \E u \in Tasks : SleepsPastClock(u)

\* a delete_sandbox took the sandbox out of the pool after a full grace
\* period, the operation on it still running
C21_Witness ==
    /\ ev.e = "removed"
    /\ ev.t \in Callers
    /\ ev.i \in active
    /\ \E t \in Callers : InBody(t, ev.i)

\* the teardown t was waiting for comes back with a step of it failed
TeardownFails(t) ==
    /\ pc[t] = "sd_tear"
    /\ pc'[t] # "sd_tear"
    /\ ev'.t = t
    /\ ev'.e # "cancelled"
    /\ ev'.f # "none"

\* C22: a teardown that fails during a sweep or a cleanup() raises nothing:
\* the deletion ends as one that worked, the sweep goes on with the ids it
\* has left to visit, and the task of cleanup()'s gather is done like the
\* others, which are where they were.
C22_TeardownFailureSwallowed ==
    [][\A t \in Tasks : TeardownFails(t) =>
          /\ ev'.e = "deleted"
          /\ t = Sweep => pc'[t] = "sw_scan" /\ rem' = rem /\ ctime' = ctime
          /\ t \in Deleters =>
                /\ pc'[t] = "d_done"
                /\ \A u \in Tasks \ {t} : pc'[u] = pc[u]
          /\ t \in Callers => pc'[t] = "idle"]_vars

\* a teardown of the sweep failed with ids of the snapshot still to visit
C22_Witness ==
    /\ ev.t = Sweep
    /\ ev.e = "deleted"
    /\ ev.f # "none"
    /\ rem # <<>>
    /\ Head(rem) \in sandboxes


\* -------------------------------------------------- C23: the client facade
\* the containers in the engine that objects of the client created
Provisioned == {b \in 1..nbox : boxes[b].engine}

Creating(u) == cu[u].pc \in {"create_container", "start", "terminal_init"}
Using(u) == cu[u].pc = "op"
TearingDown(u) == cu[u].pc \in {"close", "remove"}

\* a container no field of the client and no frame of a task refers to
Unowned(b) ==
    /\ boxes[b].engine
    /\ c_sandbox # b
    /\ \A u \in Users : cu[u].box # b

\* C23: while only first-use calls (create, run_command) are made on the
\* client and no step of the engine fails, at most one container is
\* provisioned, no task tears down the sandbox another task is creating or
\* using, and no container is left that nothing refers to.
C23_SingleSandbox ==
    (~ccleaned /\ ~cfaults) =>
        /\ Cardinality(Provisioned) <= 1
        /\ \A u \in Users : \A v \in Users \ {u} :
             (Creating(u) \/ Using(u)) /\ cu[v].box = cu[u].box
                 => ~TearingDown(v)
        /\ \A b \in 1..nbox : ~Unowned(b)

\* ------------------------------------------- C24..C30: the DockerSandbox
\* C24: cleanup() raises nothing; when it returns the object holds no
\* session, no container handle and no directory path, and the container
\* and the scratch directory are both gone or both still there.
C24_CleanupTotal ==
    out.op = "cleanup" =>
        /\ out.e = "ok"
        /\ ~dsb.terminal /\ ~dsb.handle /\ ~dsb.path
        /\ dsb.engine <=> dsb.disk

\* C25: a create() in which a step raised, and in whose cleanup() no step
\* failed, ends with SandboxError and leaves no scratch directory, no
\* container in the engine and no session.
C25_FailedCreateRollsBack ==
    (out.op = "create" /\ out.x # "none" /\ out.f = "none") =>
        /\ out.e = "SandboxError"
        /\ ~dsb.disk /\ ~dsb.engine /\ ~dsb.terminal

\* the state Ready of a DockerSandbox: a container and a session are held
SandboxReady(s) == s.handle /\ s.terminal

FileOps == {"read_file", "write_file", "copy_to", "copy_from"}

\* C26: once a cleanup() has completed the sandbox is never Ready again,
\* and every run_command, read_file, write_file, copy_to and copy_from
\* fails without a call to the container engine.
C26_DestroyedIsTerminal ==
    destroyed =>
        /\ ~SandboxReady(dsb)
        /\ out.op \in FileOps \cup {"run_command"} =>
               out.e # "ok" /\ out.calls = <<>>

\* a file operation is called on an object that holds a container
FileOpCalled ==
    /\ nops' = nops + 1
    /\ out'.op \in FileOps
    /\ dsb.handle

\* C27: a file operation given a sandbox path with a '..' segment raises
\* ValueError with no call to the container engine and no change to the
\* files of the container or the host; a path without one is resolved
\* against the working directory when it is relative and kept when it is
\* absolute.
C27_TraversalRejectedFirst ==
    [][FileOpCalled =>
         IF Traverses(out'.p)
         THEN /\ out'.e = "ValueError"
              /\ out'.calls = <<>>
              /\ cfs' = cfs /\ hfs' = hfs
         ELSE out'.r = IF out'.p.abs THEN out'.p.parts
                       ELSE WorkDir \o out'.p.parts]_vars

\* a file operation on a sandbox that holds a container was refused for a
\* '..' segment
C27_Witness ==
    /\ out.op \in FileOps
    /\ dsb.handle
    /\ Traverses(out.p)
    /\ out.e = "ValueError"

\* the last call gave the engine a path that exists: an archive came back
GotArchive == out.r # <<>> /\ Exists(cfs, out.r)

\* C28: a copy_from whose archive holds only entries with an absolute name
\* or a '..' segment (or no entry) fails with FileNotFoundError.
C28_UnsafeEntriesRejected ==
    (/\ out.op = "copy_from"
     /\ GotArchive
     /\ \A j \in 1..Len(out.arch) : Unsafe(out.arch[j]))
        => out.e = "FileNotFoundError"

\* C29: a copy_from of a container path that copy_to filled from a host
\* file succeeds and leaves at its host path the bytes of that file.
C29_CopyRoundTrip ==
    (/\ out.op = "copy_from"
     /\ out.r \in DOMAIN origin
     /\ origin[out.r].by = "copy_to")
        => /\ out.e = "ok"
           /\ out.h \in DOMAIN hfs
           /\ hfs[out.h] = origin[out.r].c

\* C30: a read_file of a path that write_file wrote last returns the text
\* written, whatever was written to other paths since.
C30_WriteReadRoundTrip ==
    (/\ out.op = "read_file"
     /\ out.r \in DOMAIN origin
     /\ origin[out.r].by = "write_file")
        => /\ out.e = "ok"
           /\ out.res = origin[out.r].c

\* ------------------------------------------------ C32..C39: the manager
\* the Sandbox of id i is being torn down by a delete or the sweep
InTeardown(i) == \E t \in Tasks : pc[t] = "sd_tear" /\ arg[t] = i

\* C32: every id in the pool table has its mutex in the lock table, and the
\* mutex stays in the lock table until the teardown of the Sandbox has
\* finished.
C32_LockOutlivesTeardown ==
    /\ sandboxes \subseteq DOMAIN locks
    /\ \A i \in Ids : (ev.e = "removed" /\ ev.i = i /\ InTeardown(i))
                          => i \in DOMAIN locks

\* C33: the step in which the sweep takes a sandbox out of the pool is made
\* with the dedicated lock of that id held by the sweep, and the sweep does
\* not hold the pool-level lock while it tears a Sandbox down.
C33_SweepUnderIdLock ==
    [][/\ (ev'.t = Sweep /\ ev'.e = "removed") =>
             /\ ev'.i \in DOMAIN locks
             /\ lockHolder[locks[ev'.i]] = Sweep
       /\ pc'[Sweep] = "sd_tear" => lockHolder'[G] # Sweep]_vars

\* C35: a Sandbox that create_sandbox provisioned and that is no longer in
\* the pool table has been torn down or is being torn down, and no teardown
\* is cut short by the cancellation of the sweep.
C35_NoDropWithoutTeardown ==
    /\ \A i \in created :
         i \notin sandboxes => TornDown(i) \/ InTeardown(i)
    /\ ~(ev.e = "cancelled" /\ ev.i \in Ids)

\* the step in which the guarded operation of t leaves the guard
GuardLeft(t) == pc[t] = "g_body" /\ pc'[t] # "g_body"

\* C36: the step that leaves the guard removes the marker of the id and
\* raises nothing of its own, whatever delete_sandbox or cleanup() did to
\* the tables while the operation ran.
C36_GuardExitClean ==
    [][\A t \in Callers :
         GuardLeft(t) =>
             /\ arg[t] \notin active'
             /\ ev'.t = t /\ ev'.e = "exited"]_vars

\* C37: the sweep takes a sandbox out of the pool only if the last guarded
\* operation on it ended (or, with none so far, it was created) more than
\* idle_timeout before the time the sweep took as its current time.
C37_IdleSinceLastExit ==
    [][(ev'.t = Sweep /\ ev'.e = "removed") =>
          ctime - idle_since[ev'.i] > idle_timeout]_vars

\* a manager call of t has begun and has not returned; get_sandbox has
\* returned once its caller runs a command on the Sandbox it got
Pending(t) == op[t] # "none" /\ pc[t] # "h_run"

\* C38: when every body of a guarded operation comes to its end, every
\* manager call that has begun returns, unless a sleep of a grace loop
\* would end after the last instant of the clock.
C38_NoDeadlock ==
    \A t \in Callers :
        Pending(t) ~> \/ ~Pending(t)
                      \/ \E u \in Tasks : SleepsPastClock(u)

\* a call waits for the lock of its id while the operation that holds the
\* lock is in its body
C38_Witness ==
    \E t \in Callers :
        /\ pc[t] = "g_wait_op"
        /\ lockHolder[lk[t]] \in Callers \ {t}
        /\ pc[lockHolder[lk[t]]] = "g_body"
        /\ lockWaiters[lk[t]] = <<t>>

\* no create_sandbox, no delete by a caller, the sweep or cleanup(), and no
\* cleanup() is under way
NoCreateOrDelete ==
    \A t \in Tasks :
        pc[t] \notin {"cr_wait", "cr_image", "cr_prov", "sd_start", "sd_poll",
                      "sd_wait_pop", "sd_tear", "cl_wait_task",
                      "cl_wait_snap", "cl_gather", "cl_wait_clear"}

\* C39: while no create_sandbox and no delete is in progress the lock table
\* has an entry for exactly the ids of the pool table.
C39_LockTableIsPoolTable ==
    NoCreateOrDelete => DOMAIN locks = sandboxes

\* ------------------------------------------------ C31, C34, C40: the session
\* the step in which the read loop of c finds its sentinel in the buffer
SentinelFound(c) == spc[c] = "reading" /\ spc'[c] = "prompt"

\* the buffer holds the line that "echo <sentinel>" of call k printed
HasPrintedSentinel(b, k) == \E j \in 1..Len(b) : b[j] = Line(k, "sent")

\* C31: the sentinel that ends the read loop of execute() is the one the
\* sentinel echo printed, after the command and the exit-status echo have
\* run, and never one that is in the stream before that, as in the tty's
\* echo of the typed line.
C31_SentinelIsPrinted ==
    [][\A c \in Callers :
         SentinelFound(c) =>
             HasPrintedSentinel(output_buffer[c] \o sock, call[c])]_vars

\* t begins a call of method m on the session in this step
LifeBegins(t, m) == lcalls' = lcalls + 1 /\ lev'.t = t /\ lev'.m = m

\* C34: an execute() on a session that has no socket or no exec (not yet
\* created, or closed) raises and writes nothing to the stream; a close()
\* of a closed session changes nothing, writes nothing and raises nothing;
\* and once a close() of a created session has returned, no call makes the
\* session Ready again.
C34_SessionLifecycle ==
    [][/\ \A t \in Callers :
            (LifeBegins(t, "execute") /\ ~SessionReady) =>
                /\ lev' = LifeEv(t, "execute", "RuntimeError")
                /\ s_wire' = s_wire
       /\ \A t \in Callers :
            (LifeBegins(t, "close") /\ s_closed) =>
                /\ lev' = LifeEv(t, "close", "returned")
                /\ <<s_socket, s_exec_id, s_wire>>' = <<s_socket, s_exec_id, s_wire>>
       /\ s_closed => ~SessionReady']_vars

\* C40: the text a run_command returns does not hold the line that the
\* exit-status echo of its own call printed, whatever the status was.
C40_NoExitCodeLine ==
    sev.e = "returned" =>
        \A j \in 1..Len(sev.res) : sev.res[j] # Line(sev.k, "rc")

====
